---- MODULE Spec2Model ----
(***************************************************************************)
(* Verification model of the cognitive-digital-twin forecasting core:     *)
(* the Training Pipeline (src/train.py, src/dataset.py), the checkpoint   *)
(* store (checkpoints/best_model.pt), the Uncertainty Estimator           *)
(* (ForecastModel.predict_with_confidence) and the Inference & Scenario   *)
(* Engine (src/infer.py, src/app.py); and of the other services of the    *)
(* repository: the canary-plugin analysis API and progress socket, and    *)
(* the blueberry-copilot intake store, rule engine and summarize         *)
(* endpoint, and the Maternal Risk Monitor server and patient modal.       *)
(*                                                                         *)
(* Units: validation MAE is in tenths of a point (5.0 -> 50); the decline *)
(* factor is in thousandths (0.9 -> 900); cognitive scores are whole      *)
(* points and forecasts are in thousandths of a point.                    *)
(***************************************************************************)
EXTENDS Integers, Sequences, FiniteSets, TLC

VARIABLES
    patience,       \* training config: early-stopping patience
    maxEpochs,      \* training config: maximum epoch count
    runState,       \* Initialized | Training | EarlyStopped | MaxEpochsReached | Finalized | Aborted
    epoch,          \* number of the current epoch (0 before the first)
    phase,          \* position inside the epoch: batches | validate | checkpoint | decide | none
    bestEpoch,      \* epoch of the best validation MAE so far (0: none yet)
    bestMAE,        \* best validation MAE so far
    sinceImprove,   \* epochs since last improvement
    maeHist,        \* validation MAE of every completed validation pass, in epoch order
    error,          \* typed error of the run ("none" when there is none)
    trainIds,       \* patient ids of the train split
    valIds,         \* patient ids of the validation split
    pending,        \* train patients not yet batched in the current epoch
    gradSrc,        \* patient ids that have been a gradient source so far
    valSeen,        \* patient ids that have been evaluated in a validation pass so far
    weights,        \* in-memory weights: [epoch, batches] of the last optimizer update
    files,          \* checkpoint store: inode -> sequence of written chunks
    ckptPath,       \* inode that checkpoints/best_model.pt names (0: no file)
    ckptChunks,     \* chunks written by the checkpoint write in progress
    rdState,        \* per inference engine: idle | reading | loaded | corrupt
    rdInode,        \* per inference engine: inode opened by the load
    rdBuf,          \* per inference engine: chunks read so far
    engMode,        \* per inference engine: eval | train (stochastic regularization active)
    engStep,        \* per inference engine: none | encoded (Fusion Encoder done, Forecast Head next)
    engReq,         \* per inference engine: the request being served [patient, kind]
    engRuns,        \* the last two point predictions served: [weights, patient, out]
    mcState,        \* uncertainty estimator: idle | running | done | failed
    mcN,            \* n_samples of the request
    mcPass,         \* per forward pass: unused | pending | running | done
    mcOut,          \* per forward pass: its output (one horizon)
    mcResult,       \* [n, sum, sumSq] the mean and std are computed from, or NoResult
    mcError,        \* typed error of the request
    lastScore,      \* the patient's most recent historical score (NoRecords: no history)
    pointEstimate,  \* horizon -> the model's point forecast for the patient
    deltaRange,     \* configured sane ranges: [sleep, activity]
    scState,        \* scenario engine: idle | predicted | done | failed
    scReq,          \* the request: [horizons, sleep, activity]
    scFactor,       \* decline factor used (thousandths)
    scBaseline,     \* horizon -> baseline forecast (thousandths of a point)
    scAdjusted,     \* horizon -> adjusted forecast (thousandths of a point)
    scError,        \* typed error of the request
    caStore,        \* canary: data/analyses.json, the stored analyses in file order
    caPc,           \* canary: per upload request: none | parsing | 202 | 400 | 500
    caResp,         \* canary: per upload request: analysis_id of the 202 response (0: none)
    caTimers,       \* canary: ids whose 5 s completion timer is pending, in scheduling order
    caClock,        \* canary: number of timestamps taken so far (new Date())
    skNow,          \* canary socket server: the time, in seconds
    skStarted,      \* canary socket server: startAnalysis events received: [socket, analysisId]
    skTimers,       \* canary socket server: pending timers [req, index, due (ms)]
    skEmitted,      \* canary socket server: per socket, the analysisProgress events emitted to it
    hasWindow,      \* blueberry: the code runs in a browser (typeof window !== 'undefined')
    bbStored,       \* blueberry: localStorage['blueberry_intakes'], the stored records
    bbSaved,        \* blueberry: ids of the records passed to saveIntake so far, oldest first
    etTriage,       \* blueberry rule engine: currentTriage of the call
    etFlags,        \* blueberry rule engine: ruleFlags of the call
    etResult,       \* blueberry rule engine: what escalateTriage returned ("none": not called yet)
    agIn,           \* blueberry rule engine: summary argument of augmentSummary
    agText,         \* blueberry rule engine: rawText argument, as the keywords the text contains
    agOut,          \* blueberry rule engine: results of the successive augmentSummary calls
    apiKey,         \* blueberry summarize: process.env.GEMINI_API_KEY is set
    smReq,          \* blueberry summarize: the request [method, raw_text]
    smPc,           \* blueberry summarize: idle | call1 | call2 | answered | handled
    smCalls,        \* blueberry summarize: model.generateContent calls made for the request
    smContents,     \* blueberry summarize: what the calls returned, in order (content, retryContent)
    smStatus,       \* blueberry summarize: status of the answer (0: none yet)
    smBody,         \* blueberry summarize: body of the answer
    hsSummary,      \* blueberry page: summary of currentIntake after handleSubmit
    mtPatients,     \* maternal: patient_id of the rows of table patients
    mtScores,       \* maternal: rows of table risk_scores, in rowid order
    mtNotes,        \* maternal: rows of table notes, in rowid order
    mtFile,         \* maternal upload: the rows of the uploaded CSV not yet processed
    mtRow,          \* maternal upload: the CSV row whose patient is upserted and score not yet inserted
    mtDetail,       \* maternal: the GET /patients/:id request, its position and what it read
    mtList          \* maternal: the GET /patients request, its position and what it read

cfgVars   == <<patience, maxEpochs>>
runVars   == <<runState, epoch, phase, bestEpoch, bestMAE, sinceImprove, maeHist, error>>
splitVars == <<trainIds, valIds, pending, gradSrc, valSeen>>
ckptVars  == <<weights, files, ckptPath, ckptChunks>>
rdVars    == <<rdState, rdInode, rdBuf>>
engVars   == <<engMode, engStep, engReq, engRuns>>
mcVars    == <<mcState, mcN, mcPass, mcOut, mcResult, mcError>>
scVars    == <<lastScore, pointEstimate, deltaRange, scState, scReq, scFactor,
               scBaseline, scAdjusted, scError>>
canVars   == <<caStore, caPc, caResp, caTimers, caClock>>
coreVars  == <<cfgVars, runVars, splitVars, ckptVars, rdVars, engVars, mcVars, scVars>>
skVars    == <<skNow, skStarted, skTimers, skEmitted>>
bbVars    == <<hasWindow, bbStored, bbSaved>>
etVars    == <<etTriage, etFlags, etResult>>
agVars    == <<agIn, agText, agOut>>
smVars    == <<apiKey, smReq, smPc, smCalls, smContents, smStatus, smBody, hsSummary>>
mtVars    == <<mtPatients, mtScores, mtNotes, mtFile, mtRow, mtDetail, mtList>>
svcVars   == <<agVars, smVars, mtVars>>
appVars   == <<canVars, skVars, bbVars, etVars, svcVars>>
vars      == <<coreVars, appVars>>

\* what the steps of one component leave alone in the others
trainOther == <<rdVars, engVars, mcVars, scVars, appVars>>
loadOther  == <<cfgVars, runVars, splitVars, ckptVars, engVars, mcVars, scVars, appVars>>
engOther   == <<cfgVars, runVars, splitVars, ckptVars, rdVars, mcVars, scVars, appVars>>
mcOther    == <<cfgVars, runVars, splitVars, ckptVars, rdVars, engVars, scVars, appVars>>
scOther    == <<cfgVars, runVars, splitVars, ckptVars, rdVars, engVars, mcVars, appVars>>
canOther   == <<coreVars, skVars, bbVars, etVars, svcVars>>
skOther    == <<coreVars, canVars, bbVars, etVars, svcVars>>
bbOther    == <<coreVars, canVars, skVars, etVars, svcVars>>
etOther    == <<coreVars, canVars, skVars, bbVars, svcVars>>
agOther    == <<coreVars, canVars, skVars, bbVars, etVars, smVars, mtVars>>
smOther    == <<coreVars, canVars, skVars, etVars, agVars, mtVars>>
mtOther    == <<coreVars, canVars, skVars, bbVars, etVars, agVars, smVars>>

(***************************************************************************)
(* Bounds                                                                  *)
(***************************************************************************)
MaxEpochsBound == 6
MaxPatience == 3
NPatients == 5
NReaders == 2
CkptEpochs == 3
MaxSamples == 4
BatchSize == 2
NChunks == 2
MaxUploads == 2
MaxStarts == 2
MaxTime == 6
NSockets == 2
MaxSaves == 7
MaxFlags == 2
MaxRows == 6
MaxListRows == 3
MaxNotes == 2

(***************************************************************************)
(* Program constants                                                       *)
(***************************************************************************)
MinSamples == 2
MAX_RECORDS == 5
HistoryLimit == 5
RisingThreshold == 20
HighRisk == 70

Patients == 1..NPatients
Readers == 1..NReaders
Inodes == 1..(MaxEpochsBound + 2)

Min(a, b) == IF a < b THEN a ELSE b
Max(a, b) == IF a > b THEN a ELSE b

(***************************************************************************)
(* Injected validation MAE values: every sequence over SmallMAE, and the   *)
(* two worked sequences of the test plan.                                  *)
(***************************************************************************)
SmallMAE == {39, 42, 50}
EarlyStopExample == <<50, 51, 52, 53>>
MonotonicExample == <<50, 42, 45, 39, 40, 41>>
MAEExamples == {EarlyStopExample, MonotonicExample}

IsProperPrefix(h, s) == Len(h) < Len(s) /\ SubSeq(s, 1, Len(h)) = h

InjectedMAE(h) ==
    SmallMAE \cup { s[Len(h) + 1] : s \in { e \in MAEExamples : IsProperPrefix(h, e) } }

(***************************************************************************)
(* dataset.py: 80/20 split by patient id                                   *)
(***************************************************************************)
ValCount(n) == n - ((n * 8) \div 10)

Splits == { v \in SUBSET Patients : Cardinality(v) = ValCount(NPatients) }

\* the patients the training loader iterates over in every epoch
EpochPatientsAll == Patients

EpochPatients == trainIds

\* the mini-batches a shuffled loader can draw next from the patients left
NextBatches(left) ==
    { b \in SUBSET left : Cardinality(b) = Min(BatchSize, Cardinality(left)) }

(***************************************************************************)
(* train.py: best-model tracking and early stopping                        *)
(***************************************************************************)
ImprovesOrTies(m) == bestEpoch = 0 \/ m <= bestMAE

StrictlyImproves(m) == bestEpoch = 0 \/ m < bestMAE

StopsWhenExceeded(c, p) == c > p

ShouldStopEarly(c, p) == c >= p

MaxEpochsExceeded(e, m) == e > m

ReachedMaxEpochs(e, m) == e >= m

\* inode the checkpoint writer writes to: in place, onto the published file
WriteTargetInPlace(e) == 1

\* inode the checkpoint writer writes to: a fresh temporary file per write
WriteTarget(e) == e

InitConfig(ps, es) ==
    /\ patience \in ps
    /\ maxEpochs \in es

InitRun ==
    /\ runState = "Initialized"
    /\ epoch = 0
    /\ phase = "none"
    /\ bestEpoch = 0
    /\ bestMAE = 0
    /\ sinceImprove = 0
    /\ maeHist = <<>>
    /\ error = "none"
    /\ weights = [epoch |-> 0, batches |-> 0]
    /\ files = [i \in Inodes |-> <<>>]
    /\ ckptPath = 0
    /\ ckptChunks = 0

InitSplit(vs) ==
    /\ valIds \in vs
    /\ trainIds = Patients \ valIds
    /\ pending = {}
    /\ gradSrc = {}
    /\ valSeen = {}

InitReaders ==
    /\ rdState = [r \in Readers |-> "idle"]
    /\ rdInode = [r \in Readers |-> 0]
    /\ rdBuf = [r \in Readers |-> <<>>]

\* Initialized -> Training(epoch=1)
StartRun ==
    /\ runState = "Initialized"
    /\ runState' = "Training"
    /\ epoch' = 1
    /\ phase' = "batches"
    /\ pending' = EpochPatients
    /\ UNCHANGED <<bestEpoch, bestMAE, sinceImprove, maeHist, error>>
    /\ UNCHANGED <<trainIds, valIds, gradSrc, valSeen>>
    /\ UNCHANGED <<cfgVars, ckptVars, trainOther>>

\* one mini-batch: forward, squared-error loss, backpropagation, optimizer update
TrainBatch ==
    /\ runState = "Training"
    /\ phase = "batches"
    /\ pending # {}
    /\ \E b \in NextBatches(pending) :
        /\ pending' = pending \ b
        /\ gradSrc' = gradSrc \cup b
        /\ weights' = [epoch |-> epoch,
                       batches |-> IF weights.epoch = epoch THEN weights.batches + 1 ELSE 1]
        /\ phase' = IF pending \ b = {} THEN "validate" ELSE "batches"
    /\ UNCHANGED <<runState, epoch, bestEpoch, bestMAE, sinceImprove, maeHist, error>>
    /\ UNCHANGED <<trainIds, valIds, valSeen>>
    /\ UNCHANGED <<files, ckptPath, ckptChunks>>
    /\ UNCHANGED <<cfgVars, trainOther>>

\* a mini-batch with a shape/dimension inconsistency is skipped
BatchShapeErrorSkipped ==
    /\ runState = "Training"
    /\ phase = "batches"
    /\ pending # {}
    /\ \E b \in NextBatches(pending) :
        /\ pending' = pending \ b
        /\ phase' = IF pending \ b = {} THEN "validate" ELSE "batches"
    /\ UNCHANGED <<runState, epoch, bestEpoch, bestMAE, sinceImprove, maeHist, error>>
    /\ UNCHANGED <<trainIds, valIds, gradSrc, valSeen>>
    /\ UNCHANGED <<cfgVars, ckptVars, trainOther>>

\* a mini-batch with a shape/dimension inconsistency: the run aborts
BatchShapeError ==
    /\ runState = "Training"
    /\ phase = "batches"
    /\ pending # {}
    /\ runState' = "Aborted"
    /\ error' = "BatchShapeError"
    /\ phase' = "none"
    /\ UNCHANGED <<epoch, bestEpoch, bestMAE, sinceImprove, maeHist>>
    /\ UNCHANGED <<splitVars, cfgVars, ckptVars, trainOther>>

\* validation pass over the validation split, then best-model bookkeeping
Validate ==
    /\ runState = "Training"
    /\ phase = "validate"
    /\ \E m \in InjectedMAE(maeHist) :
        /\ maeHist' = Append(maeHist, m)
        /\ IF StrictlyImproves(m)
           THEN /\ bestMAE' = m
                /\ bestEpoch' = epoch
                /\ sinceImprove' = 0
                /\ phase' = "checkpoint"
           ELSE /\ sinceImprove' = sinceImprove + 1
                /\ phase' = "decide"
                /\ UNCHANGED <<bestMAE, bestEpoch>>
    /\ valSeen' = valSeen \cup valIds
    /\ ckptChunks' = 0
    /\ UNCHANGED <<runState, epoch, error>>
    /\ UNCHANGED <<trainIds, valIds, pending, gradSrc>>
    /\ UNCHANGED <<weights, files, ckptPath>>
    /\ UNCHANGED <<cfgVars, trainOther>>

\* checkpoint write, one chunk of the weights at a time, to the write target
WriteChunk ==
    /\ runState = "Training"
    /\ phase = "checkpoint"
    /\ ckptChunks < NChunks
    /\ LET t == WriteTarget(epoch) IN
        files' = [files EXCEPT ![t] =
                    IF ckptChunks = 0 THEN <<weights.epoch>>
                    ELSE Append(files[t], weights.epoch)]
    /\ ckptChunks' = ckptChunks + 1
    /\ UNCHANGED <<weights, ckptPath>>
    /\ UNCHANGED <<runVars, splitVars, cfgVars, trainOther>>

\* rename of the completely written file onto checkpoints/best_model.pt
PublishCheckpoint ==
    /\ runState = "Training"
    /\ phase = "checkpoint"
    /\ ckptChunks = NChunks
    /\ ckptPath' = WriteTarget(epoch)
    /\ phase' = "decide"
    /\ UNCHANGED <<weights, files, ckptChunks>>
    /\ UNCHANGED <<runState, epoch, bestEpoch, bestMAE, sinceImprove, maeHist, error>>
    /\ UNCHANGED <<splitVars, cfgVars, trainOther>>

\* end of epoch: early stopping, maximum epoch count, or the next epoch
EndEpoch ==
    /\ runState = "Training"
    /\ phase = "decide"
    /\ IF ShouldStopEarly(sinceImprove, patience)
       THEN /\ runState' = "EarlyStopped"
            /\ phase' = "none"
            /\ UNCHANGED <<epoch, pending>>
       ELSE IF ReachedMaxEpochs(epoch, maxEpochs)
       THEN /\ runState' = "MaxEpochsReached"
            /\ phase' = "none"
            /\ UNCHANGED <<epoch, pending>>
       ELSE /\ epoch' = epoch + 1
            /\ phase' = "batches"
            /\ pending' = EpochPatients
            /\ UNCHANGED runState
    /\ UNCHANGED <<bestEpoch, bestMAE, sinceImprove, maeHist, error>>
    /\ UNCHANGED <<trainIds, valIds, gradSrc, valSeen>>
    /\ UNCHANGED <<cfgVars, ckptVars, trainOther>>

\* {EarlyStopped | MaxEpochsReached} -> Finalized
Finalize ==
    /\ runState \in {"EarlyStopped", "MaxEpochsReached"}
    /\ runState' = "Finalized"
    /\ UNCHANGED <<epoch, phase, bestEpoch, bestMAE, sinceImprove, maeHist, error>>
    /\ UNCHANGED <<splitVars, cfgVars, ckptVars, trainOther>>

(***************************************************************************)
(* infer.py: an inference engine loads checkpoints/best_model.pt           *)
(***************************************************************************)
OpenCheckpoint(r) ==
    /\ rdState[r] = "idle"
    /\ ckptPath # 0
    /\ rdState' = [rdState EXCEPT ![r] = "reading"]
    /\ rdInode' = [rdInode EXCEPT ![r] = ckptPath]
    /\ rdBuf' = [rdBuf EXCEPT ![r] = <<>>]
    /\ UNCHANGED loadOther

\* a chunk holds tensors of the dimensions of the current model definition
DimsMatch(c) == c > 0

\* read the next chunk of the opened file; a file that ends early, or a chunk
\* whose dimensions do not match the model definition, is corrupt
ReadChunk(r) ==
    /\ rdState[r] = "reading"
    /\ LET f == files[rdInode[r]]
           n == Len(rdBuf[r])
       IN IF n < Len(f) /\ DimsMatch(f[n + 1])
          THEN /\ rdBuf' = [rdBuf EXCEPT ![r] = Append(rdBuf[r], f[n + 1])]
               /\ rdState' = [rdState EXCEPT ![r] =
                                IF n + 1 = NChunks THEN "loaded" ELSE "reading"]
          ELSE /\ rdState' = [rdState EXCEPT ![r] = "corrupt"]
               /\ UNCHANGED rdBuf
    /\ UNCHANGED rdInode
    /\ UNCHANGED loadOther

\* load -> use -> discard
Discard(r) ==
    /\ rdState[r] \in {"loaded", "corrupt"}
    /\ engStep[r] = "none"
    /\ rdState' = [rdState EXCEPT ![r] = "idle"]
    /\ rdInode' = [rdInode EXCEPT ![r] = 0]
    /\ rdBuf' = [rdBuf EXCEPT ![r] = <<>>]
    /\ UNCHANGED loadOther

(***************************************************************************)
(* infer.py: a loaded engine serves predictions                            *)
(***************************************************************************)
PatientInputs == {1, 2}

RequestKinds == {"point", "confidence"}

\* dropout masks a stochastic forward pass can draw (0: no unit dropped)
DropoutMasks == {1, 2}

NoEngineRequest == [patient |-> 0, kind |-> "none"]

\* the weights an engine holds: the epoch that wrote its checkpoint (0: none)
LoadedWeights(r) == IF rdBuf[r] = <<>> THEN 0 ELSE rdBuf[r][1]

\* the Forecast Head's output is a function of weights, input and dropout mask
Forward(w, x, mask) == <<w, x, mask>>

\* a prediction may run while the checkpoint is still being read
CanPredictWhileLoading(r) == rdState[r] \in {"reading", "loaded"}

\* a prediction may run: the checkpoint load has completed successfully
CanPredict(r) == rdState[r] = "loaded"

\* point inference runs in whatever mode the engine was left in
PointModeInherited(m) == m

\* point inference runs in eval mode
PointMode(m) == "eval"

InitEngines ==
    /\ engMode = [r \in Readers |-> "train"]
    /\ engStep = [r \in Readers |-> "none"]
    /\ engReq = [r \in Readers |-> NoEngineRequest]
    /\ engRuns = <<>>

\* load the patient's records and run the Fusion Encoder per timepoint
FusionEncode(r) ==
    /\ CanPredict(r)
    /\ engStep[r] = "none"
    /\ \E x \in PatientInputs, k \in RequestKinds :
        /\ engReq' = [engReq EXCEPT ![r] = [patient |-> x, kind |-> k]]
        /\ engMode' = [engMode EXCEPT ![r] =
                          IF k = "point" THEN PointMode(engMode[r]) ELSE "train"]
    /\ engStep' = [engStep EXCEPT ![r] = "encoded"]
    /\ UNCHANGED engRuns
    /\ UNCHANGED engOther

\* the two most recent of the point predictions
LastTwo(runs) == IF Len(runs) > 2 THEN Tail(runs) ELSE runs

\* run the Forecast Head (point mode) or the Uncertainty Estimator over it
ForecastHead(r) ==
    /\ CanPredict(r)
    /\ engStep[r] = "encoded"
    /\ \E mask \in (IF engMode[r] = "eval" THEN {0} ELSE DropoutMasks) :
        engRuns' =
            IF engReq[r].kind = "point"
            THEN LastTwo(Append(engRuns,
                    [weights |-> LoadedWeights(r),
                     patient |-> engReq[r].patient,
                     out |-> Forward(LoadedWeights(r), engReq[r].patient, mask)]))
            ELSE engRuns
    /\ engStep' = [engStep EXCEPT ![r] = "none"]
    /\ engReq' = [engReq EXCEPT ![r] = NoEngineRequest]
    /\ UNCHANGED engMode
    /\ UNCHANGED engOther

\* a training run publishes a newer, completely written checkpoint
ReplaceCheckpoint ==
    /\ ckptPath = 1
    /\ ckptPath' = 2
    /\ UNCHANGED <<weights, files, ckptChunks>>
    /\ UNCHANGED <<cfgVars, runVars, splitVars, trainOther>>

(***************************************************************************)
(* forecast_model.py: predict_with_confidence, N stochastic forward passes *)
(***************************************************************************)
NoResult == [n |-> 0, sum |-> 0, sumSq |-> 0]

Passes == 1..MaxSamples

\* outputs one stochastic (dropout) forward pass can produce for one horizon
DropoutOutputs == {88, 89, 91}

RECURSIVE SumOver(_, _)
SumOver(S, f) ==
    IF S = {} THEN 0
    ELSE LET i == CHOOSE x \in S : TRUE IN f[i] + SumOver(S \ {i}, f)

\* the passes whose outputs have been collected
Collected == { i \in Passes : mcPass[i] = "done" }

\* aggregation may start: some pass of the request has completed
SomePassCompleted == \E i \in 1..mcN : mcPass[i] = "done"

\* aggregation may start: every pass of the request has completed (join barrier)
AllPassesCompleted == \A i \in 1..mcN : mcPass[i] = "done"

EnoughSamples(n) == n >= MinSamples

InitMC ==
    /\ mcState = "idle"
    /\ mcN = 0
    /\ mcPass = [i \in Passes |-> "unused"]
    /\ mcOut = [i \in Passes |-> 0]
    /\ mcResult = NoResult
    /\ mcError = "none"

\* predict_with_confidence(..., n_samples = n)
RequestConfidence ==
    /\ mcState = "idle"
    /\ \E n \in 0..MaxSamples :
        /\ mcN' = n
        /\ IF EnoughSamples(n)
           THEN /\ mcState' = "running"
                /\ mcPass' = [i \in Passes |-> IF i <= n THEN "pending" ELSE "unused"]
                /\ mcError' = "none"
           ELSE /\ mcState' = "failed"
                /\ mcError' = "InsufficientSamples"
                /\ mcPass' = [i \in Passes |-> "unused"]
    /\ mcOut' = [i \in Passes |-> 0]
    /\ mcResult' = NoResult
    /\ UNCHANGED mcOther

\* one forward pass starts, stochastic regularization active
StartPass(i) ==
    /\ mcState = "running"
    /\ mcPass[i] = "pending"
    /\ mcPass' = [mcPass EXCEPT ![i] = "running"]
    /\ UNCHANGED <<mcState, mcN, mcOut, mcResult, mcError>>
    /\ UNCHANGED mcOther

\* one forward pass completes with its output
FinishPass(i) ==
    /\ mcState = "running"
    /\ mcPass[i] = "running"
    /\ \E y \in DropoutOutputs : mcOut' = [mcOut EXCEPT ![i] = y]
    /\ mcPass' = [mcPass EXCEPT ![i] = "done"]
    /\ UNCHANGED <<mcState, mcN, mcResult, mcError>>
    /\ UNCHANGED mcOther

\* sample mean and sample standard deviation over the collected outputs:
\* mean = sum / n, std^2 = (n * sumSq - sum^2) / (n * (n - 1))
Aggregate ==
    /\ mcState = "running"
    /\ AllPassesCompleted
    /\ mcResult' = [n |-> Cardinality(Collected),
                    sum |-> SumOver(Collected, mcOut),
                    sumSq |-> SumOver(Collected, [i \in Passes |-> mcOut[i] * mcOut[i]])]
    /\ mcState' = "done"
    /\ UNCHANGED <<mcN, mcPass, mcOut, mcError>>
    /\ UNCHANGED mcOther

\* the caller takes the result (or the error); the estimator is free again
ReleaseConfidence ==
    /\ mcState \in {"done", "failed"}
    /\ mcState' = "idle"
    /\ mcN' = 0
    /\ mcPass' = [i \in Passes |-> "unused"]
    /\ mcOut' = [i \in Passes |-> 0]
    /\ mcResult' = NoResult
    /\ mcError' = "none"
    /\ UNCHANGED mcOther

(***************************************************************************)
(* infer.py / app.py: what-if scenario                                     *)
(***************************************************************************)
NoRecords == -1

Horizons == {18, 24}

Scores == {70, 88, 95}

SleepDeltas == {-13, -12, -5, -4, -2, -1, 0, 1, 2, 4, 5, 12, 13}

ActivityDeltas == {-101, -100, -21, -20, -10, 0, 10, 20, 21, 100, 101}

DeltaRanges == { [sleep |-> 4, activity |-> 20], [sleep |-> 12, activity |-> 100] }

NoForecast == [h \in Horizons |-> 0]

Clamp(x, lo, hi) == Max(lo, Min(x, hi))

\* decline factor with the activity percentage taken as 0.02 per percent
DeclineFactorPerTenth(sleep_adjustment, activity_adjustment) ==
    LET f0 == 1000
        f1 == f0 - sleep_adjustment * 50
        f2 == f1 - activity_adjustment * 20
    IN Clamp(f2, 500, 1500)

\* decline_factor = 1.0; -= sleep * 0.05; -= activity * 0.002; clamp to [0.5, 1.5]
DeclineFactor(sleep_adjustment, activity_adjustment) ==
    LET f0 == 1000
        f1 == f0 - sleep_adjustment * 50
        f2 == f1 - activity_adjustment * 2
    IN Clamp(f2, 500, 1500)

\* the factor applied to the absolute score instead of the drop
AdjustedPredictionAbsolute(last_score, baseline_prediction, decline_factor) ==
    baseline_prediction * decline_factor

\* the decline taken as baseline_prediction - last_score
AdjustedPredictionSignSlip(last_score, baseline_prediction, decline_factor) ==
    LET decline == baseline_prediction - last_score
        adjusted_decline == decline * decline_factor
    IN last_score * 1000 - adjusted_decline

\* adjusted_prediction = last_score - (last_score - baseline_prediction) * decline_factor
AdjustedPrediction(last_score, baseline_prediction, decline_factor) ==
    LET decline == last_score - baseline_prediction
        adjusted_decline == decline * decline_factor
    IN last_score * 1000 - adjusted_decline

\* predict, point mode: the forecast at the requested horizons (thousandths)
PointForecast(hs) ==
    [h \in Horizons |-> IF h \in hs THEN pointEstimate[h] * 1000 ELSE 0]

\* the adjusted forecast computed from the baseline forecast
AdjustedForecast(hs, baseline, f) ==
    [h \in Horizons |->
        IF h \in hs THEN AdjustedPrediction(lastScore, baseline[h] \div 1000, f) ELSE 0]

\* the adjusted values written into the baseline's own array
BaselineAdjustedInPlace(baseline, adjusted) == adjusted

\* the baseline forecast as returned next to the adjusted one
ReturnedBaseline(baseline, adjusted) == baseline

ValidDelta(s, a) ==
    /\ -deltaRange.sleep <= s /\ s <= deltaRange.sleep
    /\ -deltaRange.activity <= a /\ a <= deltaRange.activity

NoRequest == [horizons |-> {}, sleep |-> 0, activity |-> 0]

InitScenario(lasts, preds, ranges) ==
    /\ lastScore \in lasts
    /\ pointEstimate \in preds
    /\ deltaRange \in ranges
    /\ scState = "idle"
    /\ scReq = NoRequest
    /\ scFactor = 1000
    /\ scBaseline = NoForecast
    /\ scAdjusted = NoForecast
    /\ scError = "none"

ScenarioFails(req, err) ==
    /\ scState' = "failed"
    /\ scReq' = req
    /\ scError' = err
    /\ scFactor' = 1000
    /\ scBaseline' = NoForecast
    /\ scAdjusted' = NoForecast

\* predictWithScenario(patientId, horizons, sleepDelta, activityDelta)
PredictWithScenario ==
    /\ scState = "idle"
    /\ \E hs \in (SUBSET Horizons) \ {{}}, s \in SleepDeltas, a \in ActivityDeltas :
        LET req == [horizons |-> hs, sleep |-> s, activity |-> a] IN
        IF lastScore = NoRecords THEN ScenarioFails(req, "UnknownPatient")
        ELSE IF ~ValidDelta(s, a) THEN ScenarioFails(req, "InvalidDelta")
        ELSE /\ scState' = "done"
             /\ scReq' = req
             /\ scError' = "none"
             /\ scFactor' = DeclineFactor(s, a)
             /\ LET baseline == PointForecast(hs)
                    adjusted == AdjustedForecast(hs, baseline, DeclineFactor(s, a))
                IN /\ scAdjusted' = adjusted
                   /\ scBaseline' = ReturnedBaseline(baseline, adjusted)
    /\ UNCHANGED <<lastScore, pointEstimate, deltaRange>>
    /\ UNCHANGED scOther

\* predict(patientId, horizons), point mode
Predict ==
    /\ scState = "idle"
    /\ \E hs \in (SUBSET Horizons) \ {{}} :
        LET req == [horizons |-> hs, sleep |-> 0, activity |-> 0] IN
        IF lastScore = NoRecords THEN ScenarioFails(req, "UnknownPatient")
        ELSE /\ scState' = "predicted"
             /\ scReq' = req
             /\ scError' = "none"
             /\ scFactor' = 1000
             /\ scBaseline' = PointForecast(hs)
             /\ scAdjusted' = NoForecast
    /\ UNCHANGED <<lastScore, pointEstimate, deltaRange>>
    /\ UNCHANGED scOther

\* the caller takes the forecasts (or the error); the engine is free again
ReleaseScenario ==
    /\ scState \in {"done", "predicted", "failed"}
    /\ scState' = "idle"
    /\ scReq' = NoRequest
    /\ scFactor' = 1000
    /\ scBaseline' = NoForecast
    /\ scAdjusted' = NoForecast
    /\ scError' = "none"
    /\ UNCHANGED <<lastScore, pointEstimate, deltaRange>>
    /\ UNCHANGED scOther

(***************************************************************************)
(* canary-plugin: POST /api/v1/analyses and lib/storage                    *)
(***************************************************************************)
Uploads == 1..MaxUploads

\* values randomUUID() can return
AnalysisIds == 1..MaxUploads

\* Math.floor(Math.random() * n) + lo
RandomInt(n, lo) == lo..(lo + n - 1)

StressScores == RandomInt(40, 30)

FatigueIndexes == RandomInt(50, 25)

CognitiveLoads == RandomInt(45, 30)

\* generated scores on both sides of the thresholds the handler tests
StressSamples == {45, 69}

FatigueSamples == {74}

CognitiveSamples == {74}

sentiments == <<"positive", "neutral", "negative">>

Sentiment(stressScore, pick) ==
    IF stressScore > 70 THEN "negative"
    ELSE IF stressScore > 50 THEN "neutral"
    ELSE sentiments[pick + 1]

BurnoutRisk(stressScore, fatigueIndex) ==
    IF stressScore > 70 /\ fatigueIndex > 70 THEN "high"
    ELSE IF stressScore > 50 \/ fatigueIndex > 60 THEN "moderate"
    ELSE "low"

Recommendations(stressScore, fatigueIndex, cognitiveLoad) ==
    LET r1 == IF stressScore > 70
              THEN <<"Consider scheduling breaks between meetings",
                     "High stress detected - recommend wellness check-in">>
              ELSE <<>>
        r2 == IF fatigueIndex > 70
              THEN Append(r1, "Team showing signs of fatigue - reduce meeting frequency")
              ELSE r1
        r3 == IF cognitiveLoad > 75
              THEN Append(r2, "High cognitive load - simplify meeting agenda")
              ELSE r2
    IN IF Len(r3) = 0 THEN <<"Team wellbeing metrics within healthy range">> ELSE r3

\* the StoredAnalysis the handler builds (completedAt 0: absent)
NewAnalysis(id, createdAt, stressScore, fatigueIndex, cognitiveLoad, pick) ==
    [id |-> id,
     createdAt |-> createdAt,
     completedAt |-> 0,
     status |-> "processing",
     stressScore |-> stressScore,
     fatigueIndex |-> fatigueIndex,
     cognitiveLoad |-> cognitiveLoad,
     sentiment |-> Sentiment(stressScore, pick),
     burnoutRisk |-> BurnoutRisk(stressScore, fatigueIndex),
     recommendations |-> Recommendations(stressScore, fatigueIndex, cognitiveLoad)]

findIndex(analyses, id) ==
    IF \E i \in 1..Len(analyses) : analyses[i].id = id
    THEN CHOOSE i \in 1..Len(analyses) :
            /\ analyses[i].id = id
            /\ \A j \in 1..(i - 1) : analyses[j].id # id
    ELSE -1

\* the new analysis written over a store read as empty
createAnalysisOverEmpty(analyses, analysis) == <<analysis>>

\* readAnalyses, push, writeAnalyses
createAnalysis(analyses, analysis) == Append(analyses, analysis)

\* the id is never found
updateAnalysisNotFound(analyses, id, status, completedAt) == analyses

\* readAnalyses, findIndex, merge the updates into the record, writeAnalyses
updateAnalysis(analyses, id, status, completedAt) ==
    LET index == findIndex(analyses, id) IN
    IF index = -1 THEN analyses
    ELSE [analyses EXCEPT ![index] =
            [@ EXCEPT !.status = status, !.completedAt = completedAt]]

\* ids randomUUID() has returned so far
UsedIds == { caResp[q] : q \in Uploads } \ {0}

InitCanary ==
    /\ caStore = <<>>
    /\ caPc = [q \in Uploads |-> "none"]
    /\ caResp = [q \in Uploads |-> 0]
    /\ caTimers = <<>>
    /\ caClock = 0

\* POST: await request.formData(); 400 without an audio file, 500 when it throws
PostReceive(q) ==
    /\ caPc[q] = "none"
    /\ \E outcome \in {"parsing", "400", "500"} : caPc' = [caPc EXCEPT ![q] = outcome]
    /\ UNCHANGED <<caStore, caResp, caTimers, caClock>>
    /\ UNCHANGED canOther

\* POST, after the awaited metadata parse: generate the biomarkers,
\* createAnalysis, setTimeout(updateAnalysis, 5000), respond 202
PostStoreFrom(q, stress, fatigue, cognitive) ==
    /\ caPc[q] = "parsing"
    /\ \E id \in AnalysisIds \ UsedIds, s \in stress, f \in fatigue, c \in cognitive,
          pick \in 0..(Len(sentiments) - 1) :
        LET analysis == NewAnalysis(id, caClock + 1, s, f, c, pick) IN
        /\ caStore' = createAnalysis(caStore, analysis)
        /\ caTimers' = Append(caTimers, id)
        /\ caResp' = [caResp EXCEPT ![q] = analysis.id]
    /\ caClock' = caClock + 1
    /\ caPc' = [caPc EXCEPT ![q] = "202"]
    /\ UNCHANGED canOther

PostStore(q) == PostStoreFrom(q, StressSamples, FatigueSamples, CognitiveSamples)

PostStoreAny(q) == PostStoreFrom(q, StressScores, FatigueIndexes, CognitiveLoads)

\* the 5 s timer of the oldest pending analysis fires: updateAnalysis
CompleteAnalysis ==
    /\ caTimers # <<>>
    /\ caStore' = updateAnalysis(caStore, Head(caTimers), "completed", caClock + 1)
    /\ caTimers' = Tail(caTimers)
    /\ caClock' = caClock + 1
    /\ UNCHANGED <<caPc, caResp>>
    /\ UNCHANGED canOther

(***************************************************************************)
(* canary-plugin: server.js, the analysisProgress socket                   *)
(***************************************************************************)
Sockets == 1..NSockets

\* analysisId values a client sends with startAnalysis
PayloadIds == {1, 2}

stages ==
    << [progress |-> 20, stage |-> "preprocessing", message |-> "Preprocessing audio file..."],
       [progress |-> 40, stage |-> "extraction", message |-> "Extracting audio features..."],
       [progress |-> 60, stage |-> "analysis", message |-> "Analyzing vocal biomarkers..."],
       [progress |-> 80, stage |-> "processing", message |-> "Processing stress indicators..."],
       [progress |-> 100, stage |-> "complete", message |-> "Analysis complete!"] >>

\* setTimeout delay of the stage at (0-based) index, in ms
StageDelay(index) == (index + 1) * 1000

\* io.emit: the event goes to every connected socket
EmitTargetsAll(socket) == Sockets

\* socket.emit: the event goes to the socket the request came from
EmitTargets(socket) == {socket}

InitProgress ==
    /\ skNow = 0
    /\ skStarted = <<>>
    /\ skTimers = {}
    /\ skEmitted = [k \in Sockets |-> <<>>]

\* socket.on('startAnalysis'): one timer per stage
StartAnalysis(socket, analysisId) ==
    /\ Len(skStarted) < MaxStarts
    /\ skNow * 1000 + StageDelay(Len(stages) - 1) <= MaxTime * 1000
    /\ skStarted' = Append(skStarted, [socket |-> socket, analysisId |-> analysisId])
    /\ skTimers' = skTimers \cup
            { [req |-> Len(skStarted) + 1, index |-> i, due |-> skNow * 1000 + StageDelay(i)] :
                i \in 0..(Len(stages) - 1) }
    /\ UNCHANGED <<skNow, skEmitted>>
    /\ UNCHANGED skOther

\* the timer t runs next: it has expired, none expires earlier, and none of
\* the same delay was scheduled before it
RunsNext(t) ==
    /\ t.due <= skNow * 1000
    /\ \A u \in skTimers :
          /\ u.due >= t.due
          /\ (u.due = t.due /\ u.index = t.index) => u.req >= t.req

\* a stage timer fires: socket.emit('analysisProgress', {analysisId, ...stageData})
EmitProgress ==
    /\ \E t \in skTimers :
        /\ RunsNext(t)
        /\ skTimers' = skTimers \ {t}
        /\ LET r == skStarted[t.req]
               event == [req |-> t.req,
                         analysisId |-> r.analysisId,
                         progress |-> stages[t.index + 1].progress,
                         stage |-> stages[t.index + 1].stage,
                         message |-> stages[t.index + 1].message]
           IN skEmitted' = [k \in Sockets |->
                              IF k \in EmitTargets(r.socket)
                              THEN Append(skEmitted[k], event)
                              ELSE skEmitted[k]]
    /\ UNCHANGED <<skNow, skStarted>>
    /\ UNCHANGED skOther

\* a second passes, once every expired timer has run
Tick ==
    /\ skNow < MaxTime
    /\ \A t \in skTimers : t.due > skNow * 1000
    /\ skNow' = skNow + 1
    /\ UNCHANGED <<skStarted, skTimers, skEmitted>>
    /\ UNCHANGED skOther

(***************************************************************************)
(* blueberry-copilot: lib/storage.ts, the intake history in localStorage   *)
(***************************************************************************)
IntakeIds == 1..MaxSaves

NoteTexts == {"", "seen by nurse"}

getIntakes == IF ~hasWindow THEN <<>> ELSE bbStored

\* intakes.unshift(record)
unshift(intakes, record) == <<record>> \o intakes

\* intakes.slice(-MAX_RECORDS)
trimmedFromEnd(intakes) ==
    SubSeq(intakes, Max(1, Len(intakes) - MAX_RECORDS + 1), Len(intakes))

\* intakes.slice(0, MAX_RECORDS)
trimmed(intakes) == SubSeq(intakes, 1, Min(MAX_RECORDS, Len(intakes)))

InitIntakes(windows) ==
    /\ hasWindow \in windows
    /\ bbStored = <<>>
    /\ bbSaved = <<>>

\* saveIntake(record), the record as index.tsx builds it: a fresh uuid, notes ''
saveIntake ==
    /\ Len(bbSaved) < MaxSaves
    /\ LET record == [id |-> Len(bbSaved) + 1, notes |-> ""] IN
        /\ bbSaved' = Append(bbSaved, record.id)
        /\ bbStored' = IF ~hasWindow THEN bbStored
                       ELSE trimmed(unshift(getIntakes, record))
    /\ UNCHANGED hasWindow
    /\ UNCHANGED bbOther

\* updateIntakeNotes(id, notes)
updateIntakeNotes(id, notes) ==
    /\ LET intakes == getIntakes
           found == { i \in 1..Len(intakes) : intakes[i].id = id }
       IN bbStored' = IF ~hasWindow \/ found = {} THEN bbStored
                      ELSE LET index == CHOOSE i \in found : \A j \in found : i <= j
                           IN [intakes EXCEPT ![index].notes = notes]
    /\ UNCHANGED <<hasWindow, bbSaved>>
    /\ UNCHANGED bbOther

(***************************************************************************)
(* blueberry-copilot: lib/ruleEngine.ts, escalateTriage                    *)
(***************************************************************************)
Triages == {"low", "moderate", "high", "emergency"}

\* the flags of KEYWORD_FLAGS, and one flag that is not among them
RuleFlags ==
    {"respiratory distress", "cyanosis", "seizures", "unresponsive/poor responsiveness",
     "poor intake/dehydration", "airway compromise", "fever"}

EMERGENCY_FLAGS == {"respiratory distress", "cyanosis", "seizures", "airway compromise"}

FlagLists == UNION { [1..n -> RuleFlags] : n \in 0..MaxFlags }

\* ruleFlags.every(flag => EMERGENCY_FLAGS.has(flag))
everyFlagEmergency(ruleFlags) ==
    \A i \in 1..Len(ruleFlags) : ruleFlags[i] \in EMERGENCY_FLAGS

\* ruleFlags.some(flag => EMERGENCY_FLAGS.has(flag))
hasEmergencyFlag(ruleFlags) ==
    \E i \in 1..Len(ruleFlags) : ruleFlags[i] \in EMERGENCY_FLAGS

escalateTriage(currentTriage, ruleFlags) ==
    IF hasEmergencyFlag(ruleFlags) THEN "emergency"
    ELSE IF Len(ruleFlags) > 0 /\ (currentTriage = "low" \/ currentTriage = "moderate")
    THEN "high"
    ELSE currentTriage

InitTriage(triages, lists) ==
    /\ etTriage \in triages
    /\ etFlags \in lists
    /\ etResult = "none"

\* a call escalateTriage(currentTriage, ruleFlags)
EscalateTriage ==
    /\ etResult = "none"
    /\ etResult' = escalateTriage(etTriage, etFlags)
    /\ UNCHANGED <<etTriage, etFlags>>
    /\ UNCHANGED etOther

(***************************************************************************)
(* blueberry-copilot: lib/ruleEngine.ts, detectRuleFlags and augmentSummary*)
(* A JavaScript string or array is [t: its type, v: its content as a       *)
(* sequence]; a raw text is the set of the keyword phrases its lower-cased *)
(* form contains.                                                          *)
(***************************************************************************)
Str(s) == [t |-> "string", v |-> <<s>>]

StrOf(x) == x.v[1]

Arr(a) == [t |-> "array", v |-> a]

Undefined == [t |-> "undefined", v |-> <<>>]

KEYWORD_FLAGS ==
    << [k |-> {"breathing fast", "fast breathing", "breathing difficulty",
               "difficulty breathing", "retractions", "grunting", "apnea"},
        flag |-> "respiratory distress"],
       [k |-> {"blue", "cyanosis", "bluish"}, flag |-> "cyanosis"],
       [k |-> {"seizure", "convulsion", "jerking"}, flag |-> "seizures"],
       [k |-> {"very sleepy", "unresponsive", "hard to wake", "lethargic"},
        flag |-> "unresponsive/poor responsiveness"],
       [k |-> {"not drinking", "not feeding", "dehydrated", "few wet diapers"},
        flag |-> "poor intake/dehydration"],
       [k |-> {"stridor", "drooling", "difficulty swallowing"},
        flag |-> "airway compromise"] >>

\* phrases a text may contain: keywords of four entries and one phrase that is no keyword
Phrases == {"retractions", "blue", "very sleepy", "not drinking", "runny nose"}

Texts == SUBSET Phrases

RECURSIVE flagsOf(_)
flagsOf(entries) ==
    IF entries = <<>> THEN <<>>
    ELSE <<Head(entries).flag>> \o flagsOf(Tail(entries))

\* detectRuleFlags(text): one flag per entry with a keyword in the text, in entry order
detectRuleFlags(text) ==
    flagsOf(SelectSeq(KEYWORD_FLAGS, LAMBDA entry : entry.k \cap text # {}))

\* [...flags], every occurrence kept
keepDuplicates(flags) == flags

\* Array.from(new Set(flags)): the first occurrence of each flag, in order
RECURSIVE unique(_)
unique(flags) ==
    IF flags = <<>> THEN <<>>
    ELSE LET init == unique(SubSeq(flags, 1, Len(flags) - 1))
             last == flags[Len(flags)]
         IN IF \E i \in 1..Len(init) : init[i] = last THEN init ELSE Append(init, last)

\* red_flags lists a model response may carry
ModelFlagLists ==
    { <<>>, <<"poor perfusion">>, <<"cyanosis">>, <<"cyanosis", "cyanosis">>,
      <<"unresponsive/poor responsiveness", "fever">> }

IntakeSummaryOf(red_flags, triage) ==
    [chief_concern |-> Str("cough and fever"), duration |-> Str("2 days"),
     key_symptoms |-> Arr(<<"cough", "fever">>), red_flags |-> Arr(red_flags),
     triage |-> Str(triage), follow_up_questions |-> Arr(<<"Any rash?">>),
     possible_causes |-> Arr(<<"viral infection">>), hpi |-> Str("2 days of cough.")]

IntakeSummaries ==
    { IntakeSummaryOf(f, t) : f \in ModelFlagLists, t \in Triages }

augmentSummary(summary, rawText) ==
    LET ruleFlags == detectRuleFlags(rawText)
        allFlags == unique(summary.red_flags.v \o ruleFlags)
        escalatedTriage == escalateTriage(StrOf(summary.triage), ruleFlags)
    IN [summary EXCEPT !.red_flags = Arr(allFlags), !.triage = Str(escalatedTriage)]

InitAugment(summaries, texts) ==
    /\ agIn \in summaries
    /\ agText \in texts
    /\ agOut = <<>>

\* a call augmentSummary(summary, rawText), then a call on its result with the same text
AugmentSummary ==
    /\ Len(agOut) < 2
    /\ agOut' = Append(agOut, augmentSummary(IF agOut = <<>> THEN agIn ELSE agOut[1], agText))
    /\ UNCHANGED <<agIn, agText>>
    /\ UNCHANGED agOther

(***************************************************************************)
(* blueberry-copilot: pages/api/summarize.ts and handleSubmit of index.tsx *)
(***************************************************************************)
\* a parsed value: an object with its fields, or null, which has none
Obj(fields) == [t |-> "object", v |-> fields]

Null == [t |-> "null", v |-> [f \in DOMAIN IntakeSummaryOf(<<>>, "low") |-> Undefined]]

\* parsed responses that are objects of another shape
OtherObjects ==
    LET summary == IntakeSummaryOf(<<"cyanosis">>, "emergency") IN
    { [summary EXCEPT !.triage = Str("urgent")],
      [summary EXCEPT !.triage = Undefined],
      [summary EXCEPT !.red_flags = Str("cyanosis")],
      [summary EXCEPT !.hpi = Undefined] }

\* what model.generateContent gives: an exception, a text that is no JSON, or JSON text
Contents ==
    { [kind |-> "throws", value |-> Null], [kind |-> "text", value |-> Null],
      [kind |-> "json", value |-> Null] }
    \cup { [kind |-> "json", value |-> Obj(o)] : o \in OtherObjects \cup IntakeSummaries }

\* raw_text of a request body: a non-empty string, '', absent, or a number
RawTexts ==
    { [t |-> "string", empty |-> FALSE, words |-> w] : w \in Texts }
    \cup { [t |-> "string", empty |-> TRUE, words |-> {}],
           [t |-> "undefined", empty |-> FALSE, words |-> {}],
           [t |-> "number", empty |-> FALSE, words |-> {}] }

Methods == {"POST", "GET"}

\* !raw_text
Falsy(raw_text) == raw_text.t = "undefined" \/ raw_text.empty

\* typeof obj === "object" && obj !== null
validatesAnyObject(obj) == obj.t = "object"

validateIntakeSummary(obj) ==
    /\ obj.t = "object"
    /\ LET o == obj.v IN
        /\ o.chief_concern.t = "string"
        /\ o.duration.t = "string"
        /\ o.key_symptoms.t = "array"
        /\ o.red_flags.t = "array"
        /\ o.triage.t = "string" /\ StrOf(o.triage) \in {"emergency", "high", "moderate", "low"}
        /\ o.follow_up_questions.t = "array"
        /\ o.possible_causes.t = "array"
        /\ o.hpi.t = "string"

ErrorBody(message) == [error |-> message, json |-> Null]

JsonBody(parsed) == [error |-> "", json |-> parsed]

NoBody == [error |-> "", json |-> Null]

InitSummarize(keys, methods, raw_texts) ==
    /\ apiKey \in keys
    /\ smReq \in [method : methods, raw_text : raw_texts]
    /\ smPc = "idle"
    /\ smCalls = 0
    /\ smContents = <<>>
    /\ smStatus = 0
    /\ smBody = NoBody
    /\ hsSummary = Null

Answer(status, body) ==
    /\ smPc' = "answered"
    /\ smStatus' = status
    /\ smBody' = body

\* handler, up to the first model.generateContent call
HandlerEntry ==
    /\ smPc = "idle"
    /\ IF smReq.method # "POST"
       THEN Answer(405, ErrorBody("Method not allowed")) /\ UNCHANGED smCalls
       ELSE IF Falsy(smReq.raw_text) \/ smReq.raw_text.t # "string"
       THEN Answer(400, ErrorBody("raw_text is required")) /\ UNCHANGED smCalls
       ELSE IF ~apiKey
       THEN Answer(500, ErrorBody("GEMINI_API_KEY not configured")) /\ UNCHANGED smCalls
       ELSE /\ smPc' = "call1"
            /\ smCalls' = 1
            /\ UNCHANGED <<smStatus, smBody>>
    /\ UNCHANGED <<apiKey, smReq, smContents, hsSummary>>
    /\ UNCHANGED bbVars
    /\ UNCHANGED smOther

\* if (!validateIntakeSummary(parsed)) 500 else 200
AnswerParsed(parsed) ==
    IF ~validateIntakeSummary(parsed)
    THEN Answer(500, ErrorBody("Response does not match expected schema"))
    ELSE Answer(200, JsonBody(parsed))

\* handler, from the first call's result to the retry or the answer
FirstContent(content) ==
    /\ smPc = "call1"
    /\ smContents' = Append(smContents, content)
    /\ IF content.kind = "throws"
       THEN Answer(500, ErrorBody("Failed to call Gemini API")) /\ UNCHANGED smCalls
       ELSE IF content.kind = "text"
       THEN /\ smPc' = "call2"
            /\ smCalls' = smCalls + 1
            /\ UNCHANGED <<smStatus, smBody>>
       ELSE AnswerParsed(content.value) /\ UNCHANGED smCalls
    /\ UNCHANGED <<apiKey, smReq, hsSummary>>
    /\ UNCHANGED bbVars
    /\ UNCHANGED smOther

\* handler, from the retry's result to the answer
RetryContent(content) ==
    /\ smPc = "call2"
    /\ smContents' = Append(smContents, content)
    /\ IF content.kind = "throws"
       THEN Answer(500, ErrorBody("Failed to call Gemini API"))
       ELSE IF content.kind = "text"
       THEN Answer(500, ErrorBody("Failed to parse Gemini response after retry"))
       ELSE AnswerParsed(content.value)
    /\ UNCHANGED <<apiKey, smReq, smCalls, hsSummary>>
    /\ UNCHANGED bbVars
    /\ UNCHANGED smOther

\* handleSubmit of the page, from the response on; the page posts its form's text
HandleResponse ==
    /\ smPc = "answered"
    /\ smReq.method = "POST" /\ smReq.raw_text.t = "string"
    /\ smPc' = "handled"
    /\ IF smStatus # 200
       THEN UNCHANGED <<hsSummary, bbVars>>
       ELSE LET augmentedSummary == augmentSummary(smBody.json.v, smReq.raw_text.words)
                record == [id |-> Len(bbSaved) + 1, notes |-> "", summary |-> augmentedSummary]
            IN /\ hsSummary' = Obj(augmentedSummary)
               /\ bbSaved' = Append(bbSaved, record.id)
               /\ bbStored' = IF ~hasWindow THEN bbStored
                              ELSE trimmed(unshift(getIntakes, record))
               /\ UNCHANGED hasWindow
    /\ UNCHANGED <<apiKey, smReq, smCalls, smContents, smStatus, smBody>>
    /\ UNCHANGED smOther

(***************************************************************************)
(* Maternal Risk Monitor: server/server.js over the tables of server/db.js *)
(* and the chart of the patient modal (client PatientModal)                *)
(***************************************************************************)
PatientIds == {1, 2}

CsvRow(patient_id, risk_score, timestamp) ==
    [patient_id |-> patient_id, risk_score |-> risk_score, timestamp |-> timestamp]

\* CSV files of MaxRows rows: timestamps ascending, descending, all equal, alternating,
\* two patients in turn, and a second patient first with equal timestamps from the third row on
DetailFiles ==
    { [i \in 1..MaxRows |-> CsvRow(1, 40 + 5 * i, i)],
      [i \in 1..MaxRows |-> CsvRow(1, 40 + 5 * i, MaxRows + 1 - i)],
      [i \in 1..MaxRows |-> CsvRow(1, 40 + 5 * i, 1)],
      [i \in 1..MaxRows |-> CsvRow(1, 40 + 5 * i, 1 + (i % 2))],
      [i \in 1..MaxRows |-> CsvRow(1 + (i % 2), 40 + 5 * i, i)],
      [i \in 1..MaxRows |-> CsvRow(IF i = 1 THEN 2 ELSE 1, 40 + 5 * i, Min(i, 3))] }

\* rows of the CSV files for the patient list
ListRows ==
    { CsvRow(1, sc, ts) : sc \in {50, 70, 71}, ts \in {1, 2} } \cup { CsvRow(2, 71, 1) }

ListFiles == [1..MaxListRows -> ListRows]

\* an order SQLite leaves open, between rows of equal keys: by rowid, or by rowid backwards
TieOrders == {1, -1}

\* ORDER BY key: the rows of S by ascending key[row], equal keys in the tie order
RECURSIVE OrderBy(_, _, _)
OrderBy(S, key, tie) ==
    IF S = {} THEN <<>>
    ELSE LET first == CHOOSE x \in S : \A y \in S \ {x} :
                          \/ key[x] < key[y]
                          \/ key[x] = key[y] /\ tie * x.id < tie * y.id
         IN <<first>> \o OrderBy(S \ {first}, key, tie)

\* LIMIT n
Limit(rows, n) == SubSeq(rows, 1, Min(n, Len(rows)))

\* Array.prototype.reverse
reverse(a) == [i \in 1..Len(a) |-> a[Len(a) - i + 1]]

RowsOf(table) == { table[i] : i \in 1..Len(table) }

\* WHERE patient_id = ?
WherePatient(table, id) == { r \in RowsOf(table) : r.patient_id = id }

NoDetail ==
    [pc |-> "idle", id |-> 0, status |-> 0, scores |-> <<>>, history |-> <<>>, notes |-> <<>>]

NoList ==
    [pc |-> "idle", sort |-> "", filter |-> "", rows |-> <<>>, seenScores |-> 0,
     allScores |-> <<>>, body |-> <<>>]

InitMaternal(csvFiles) ==
    /\ mtPatients = {}
    /\ mtScores = <<>>
    /\ mtNotes = <<>>
    /\ mtFile \in csvFiles
    /\ mtRow = <<>>
    /\ mtDetail = NoDetail
    /\ mtList = NoList

\* the server is followed until it has answered the GET request under study
Unanswered == mtDetail.pc # "done" /\ mtList.pc # "done"

\* POST /upload-csv, processRow: the upsert of the row's patient
UpsertPatient ==
    /\ Unanswered
    /\ mtRow = <<>>
    /\ mtFile # <<>>
    /\ mtPatients' = mtPatients \cup {Head(mtFile).patient_id}
    /\ mtRow' = <<Head(mtFile)>>
    /\ mtFile' = Tail(mtFile)
    /\ UNCHANGED <<mtScores, mtNotes, mtDetail, mtList>>
    /\ UNCHANGED mtOther

\* POST /upload-csv, processRow: the insert of the row's risk score
InsertRiskScore ==
    /\ Unanswered
    /\ mtRow # <<>>
    /\ mtScores' = Append(mtScores, [id |-> Len(mtScores) + 1, patient_id |-> mtRow[1].patient_id,
                                      risk_score |-> mtRow[1].risk_score,
                                      timestamp |-> mtRow[1].timestamp])
    /\ mtRow' = <<>>
    /\ UNCHANGED <<mtPatients, mtNotes, mtFile, mtDetail, mtList>>
    /\ UNCHANGED mtOther

\* POST /patients/:id/notes; created_at is CURRENT_TIMESTAMP, which never goes back
AddNote(id, created_at) ==
    /\ Unanswered
    /\ Len(mtNotes) < MaxNotes
    /\ created_at >= (IF mtNotes = <<>> THEN 1 ELSE mtNotes[Len(mtNotes)].created_at)
    /\ mtNotes' = Append(mtNotes, [id |-> Len(mtNotes) + 1, patient_id |-> id,
                                    created_at |-> created_at])
    /\ UNCHANGED <<mtPatients, mtScores, mtFile, mtRow, mtDetail, mtList>>
    /\ UNCHANGED mtOther

\* GET /patients/:id, the patient query and its callback's start
DetailPatient(id) ==
    /\ mtDetail.pc = "idle"
    /\ mtDetail' = IF id \notin mtPatients
                   THEN [mtDetail EXCEPT !.pc = "done", !.id = id, !.status = 404]
                   ELSE [mtDetail EXCEPT !.pc = "scores", !.id = id]
    /\ UNCHANGED <<mtPatients, mtScores, mtNotes, mtFile, mtRow, mtList>>
    /\ UNCHANGED mtOther

\* GET /patients/:id, the query of the last 5 scores
DetailScores(tie) ==
    /\ mtDetail.pc = "scores"
    /\ LET S == WherePatient(mtScores, mtDetail.id)
           scores == Limit(OrderBy(S, [r \in S |-> -r.timestamp], tie), HistoryLimit)
       IN mtDetail' = [mtDetail EXCEPT !.pc = "notes", !.scores = scores]
    /\ UNCHANGED <<mtPatients, mtScores, mtNotes, mtFile, mtRow, mtList>>
    /\ UNCHANGED mtOther

\* scores, listed newest first
historyDescending(scores) == scores

\* history: scores.reverse()
history(scores) == reverse(scores)

\* GET /patients/:id, the query of the notes and the answer
DetailNotes(tie) ==
    /\ mtDetail.pc = "notes"
    /\ LET N == WherePatient(mtNotes, mtDetail.id)
           notes == OrderBy(N, [r \in N |-> -r.created_at], tie)
       IN mtDetail' = [mtDetail EXCEPT !.pc = "done", !.status = 200,
                                       !.history = history(mtDetail.scores),
                                       !.notes = notes]
    /\ UNCHANGED <<mtPatients, mtScores, mtNotes, mtFile, mtRow, mtList>>
    /\ UNCHANGED mtOther

\* PatientModal: data of the 'Risk Trend (Last 5)' LineChart for the answer data
ChartData(data) == reverse(data.history)

\* sort and filter of req.query
Sorts == {"", "risk_desc"}

Filters == {"", "high"}

\* GET /patients, the first query: per patient with a score, its row of latest timestamp
ListRowsQuery(tie, scan) ==
    /\ mtList.pc = "idle"
    /\ LET latest(p) ==
               LET S == WherePatient(mtScores, p)
               IN Limit(OrderBy(S, [r \in S |-> -r.timestamp], tie), 1)
           joined == { [id |-> p, patient_id |-> p, risk_score |-> latest(p)[1].risk_score,
                        timestamp |-> latest(p)[1].timestamp] :
                       p \in { q \in mtPatients : WherePatient(mtScores, q) # {} } }
       IN mtList' = [mtList EXCEPT !.pc = "scores", !.seenScores = Len(mtScores),
                                   !.rows = OrderBy(joined, [r \in joined |-> 0], scan)]
    /\ UNCHANGED <<mtPatients, mtScores, mtNotes, mtFile, mtRow, mtDetail>>
    /\ UNCHANGED mtOther

\* latest.risk_score - prev.risk_score > 20
rises(latest, prev) == latest.risk_score - prev.risk_score > RisingThreshold

\* flag of a row, from the scores of its patient in the order read
Flag(scores) ==
    IF Len(scores) >= 2 /\ rises(scores[Len(scores)], scores[Len(scores) - 1])
    THEN "rising" ELSE ""

\* processed.sort((a, b) => b.risk_score - a.risk_score): a stable sort, highest first
RECURSIVE sortRiskDesc(_)
sortRiskDesc(rows) ==
    IF rows = <<>> THEN <<>>
    ELSE LET i == CHOOSE j \in 1..Len(rows) :
                     /\ \A k \in 1..Len(rows) : rows[k].risk_score <= rows[j].risk_score
                     /\ \A k \in 1..(j - 1) : rows[k].risk_score < rows[j].risk_score
         IN <<rows[i]>> \o sortRiskDesc(SubSeq(rows, 1, i - 1) \o SubSeq(rows, i + 1, Len(rows)))

\* GET /patients, the second query, the flags, the filter, the sort and the answer
ListScoresQuery(tie, sort, filter) ==
    /\ mtList.pc = "scores"
    /\ LET All == RowsOf(mtScores)
           allScores == OrderBy(All, [r \in All |-> 10 * r.patient_id + r.timestamp], tie)
           patientMap(p) == SelectSeq(allScores, LAMBDA sc : sc.patient_id = p)
           finalResults == [i \in 1..Len(mtList.rows) |->
                              [patient_id |-> mtList.rows[i].patient_id,
                               risk_score |-> mtList.rows[i].risk_score,
                               timestamp |-> mtList.rows[i].timestamp,
                               flag |-> Flag(patientMap(mtList.rows[i].patient_id))]]
           filtered == IF filter = "high"
                       THEN SelectSeq(finalResults, LAMBDA row : row.risk_score > HighRisk)
                       ELSE finalResults
           processed == IF sort = "risk_desc" THEN sortRiskDesc(filtered) ELSE filtered
       IN mtList' = [mtList EXCEPT !.pc = "done", !.sort = sort, !.filter = filter,
                                   !.allScores = allScores, !.body = processed]
    /\ UNCHANGED <<mtPatients, mtScores, mtNotes, mtFile, mtRow, mtDetail>>
    /\ UNCHANGED mtOther

ServicesIdle ==
    /\ InitMaternal({<<>>})
    /\ InitAugment({IntakeSummaryOf(<<>>, "low")}, {{}})
    /\ InitSummarize({TRUE}, {"POST"}, {[t |-> "string", empty |-> FALSE, words |-> {}]})

AppsIdle ==
    /\ InitCanary
    /\ InitProgress
    /\ InitIntakes({TRUE})
    /\ InitTriage({"low"}, {<<>>})
    /\ ServicesIdle

\* components at rest, for the specifications that do not exercise them
TrainIdle ==
    /\ InitConfig({1}, {1})
    /\ InitRun
    /\ InitSplit({ (NPatients - ValCount(NPatients) + 1)..NPatients })

ScenarioIdle ==
    InitScenario({88}, { [h \in Horizons |-> 88] }, { [sleep |-> 4, activity |-> 20] })

Init ==
    /\ InitConfig(1..MaxPatience, 1..MaxEpochsBound)
    /\ InitRun
    /\ InitSplit(Splits)
    /\ InitReaders
    /\ InitEngines
    /\ InitMC
    /\ ScenarioIdle
    /\ AppsIdle

Next ==
    \/ StartRun
    \/ TrainBatch
    \/ BatchShapeError
    \/ Validate
    \/ WriteChunk
    \/ PublishCheckpoint
    \/ EndEpoch
    \/ Finalize

Spec == Init /\ [][Next]_vars

FairSpec == Spec /\ WF_vars(Next)

\* a training run with inference engines loading the checkpoint concurrently
InitCkpt ==
    /\ InitConfig({1, 2}, 1..CkptEpochs)
    /\ InitRun
    /\ InitSplit({ (NPatients - ValCount(NPatients) + 1)..NPatients })
    /\ InitReaders
    /\ InitEngines
    /\ InitMC
    /\ ScenarioIdle
    /\ AppsIdle

Load ==
    \E r \in Readers : OpenCheckpoint(r) \/ ReadChunk(r) \/ Discard(r)

NextCkpt ==
    \/ Next
    \/ Load

SpecCkpt == InitCkpt /\ [][NextCkpt]_vars

\* the Uncertainty Estimator serving requests, its passes running in parallel
InitConfidence ==
    /\ TrainIdle
    /\ InitReaders
    /\ InitEngines
    /\ InitMC
    /\ ScenarioIdle
    /\ AppsIdle

NextConfidence ==
    \/ RequestConfidence
    \/ \E i \in Passes : StartPass(i)
    \/ \E i \in Passes : FinishPass(i)
    \/ Aggregate
    \/ ReleaseConfidence

SpecConfidence == InitConfidence /\ [][NextConfidence]_vars

\* the scenario engine serving requests for any patient history and forecast
InitWhatIf ==
    /\ TrainIdle
    /\ InitReaders
    /\ InitEngines
    /\ InitMC
    /\ InitScenario(Scores \cup {NoRecords}, [Horizons -> Scores], DeltaRanges)
    /\ AppsIdle

NextWhatIf ==
    \/ Predict
    \/ PredictWithScenario
    \/ ReleaseScenario

SpecWhatIf == InitWhatIf /\ [][NextWhatIf]_vars

\* inference engines loading whatever checkpoints/best_model.pt holds, then predicting
WholeFile(e) == [i \in 1..NChunks |-> e]

TruncatedFile(e) == [i \in 1..(NChunks - 1) |-> e]

\* a checkpoint whose later tensors belong to another model definition
MismatchedFile(e) == [i \in 1..NChunks |-> IF i = 1 THEN e ELSE 0 - e]

FilesOnDisk == {WholeFile(1), TruncatedFile(1), MismatchedFile(1), <<>>}

InitInfer ==
    /\ InitConfig({1}, {1})
    /\ runState = "Finalized"
    /\ epoch = 2
    /\ phase = "none"
    /\ bestEpoch = 2
    /\ bestMAE = 39
    /\ sinceImprove = 0
    /\ maeHist = <<42, 39>>
    /\ error = "none"
    /\ weights = [epoch |-> 2, batches |-> 1]
    /\ \E f \in FilesOnDisk :
          files = [i \in Inodes |-> IF i = 1 THEN f ELSE IF i = 2 THEN WholeFile(2) ELSE <<>>]
    /\ ckptPath = 1
    /\ ckptChunks = 0
    /\ InitSplit({ (NPatients - ValCount(NPatients) + 1)..NPatients })
    /\ InitReaders
    /\ InitEngines
    /\ InitMC
    /\ ScenarioIdle
    /\ AppsIdle

Serve ==
    \E r \in Readers : FusionEncode(r) \/ ForecastHead(r)

NextInfer ==
    \/ Load
    \/ Serve
    \/ ReplaceCheckpoint

SpecInfer == InitInfer /\ [][NextInfer]_vars

\* the core at rest, for the specifications of the other services
CoreIdle ==
    /\ TrainIdle
    /\ InitReaders
    /\ InitEngines
    /\ InitMC
    /\ ScenarioIdle

\* canary-plugin: concurrent uploads and their completion timers
InitUploads ==
    /\ CoreIdle
    /\ AppsIdle

NextCanary ==
    \/ \E q \in Uploads : PostReceive(q)
    \/ \E q \in Uploads : PostStore(q)
    \/ CompleteAnalysis

SpecCanary == InitUploads /\ [][NextCanary]_vars

\* a pending timer fires as long as the server process runs
FairCanary == SpecCanary /\ WF_vars(CompleteAnalysis)

\* canary-plugin: one upload over the generator's whole range of scores
NextRisk ==
    \/ \E q \in {1} : PostReceive(q)
    \/ \E q \in {1} : PostStoreAny(q)
    \/ CompleteAnalysis

SpecRisk == InitUploads /\ [][NextRisk]_vars

\* canary-plugin: startAnalysis events on the sockets and their stage timers
InitSockets ==
    /\ CoreIdle
    /\ AppsIdle

NextProgress ==
    \/ \E k \in Sockets, id \in PayloadIds : StartAnalysis(k, id)
    \/ EmitProgress
    \/ Tick

SpecProgress == InitSockets /\ [][NextProgress]_vars

\* blueberry-copilot: the intake history, in the browser and on the server
InitHistory ==
    /\ CoreIdle
    /\ InitCanary
    /\ InitProgress
    /\ InitIntakes(BOOLEAN)
    /\ InitTriage({"low"}, {<<>>})
    /\ ServicesIdle

NextHistory ==
    \/ saveIntake
    \/ \E id \in IntakeIds, notes \in NoteTexts : updateIntakeNotes(id, notes)

SpecHistory == InitHistory /\ [][NextHistory]_vars

\* blueberry-copilot: escalateTriage on every triage and every list of flags
InitEscalate ==
    /\ CoreIdle
    /\ InitCanary
    /\ InitProgress
    /\ InitIntakes({TRUE})
    /\ InitTriage(Triages, FlagLists)
    /\ ServicesIdle

NextEscalate == EscalateTriage

SpecEscalate == InitEscalate /\ [][NextEscalate]_vars

\* the other services at rest, for the specifications of one of them
BlueberryIdle ==
    /\ InitIntakes({TRUE})
    /\ InitTriage({"low"}, {<<>>})

OthersIdle ==
    /\ CoreIdle
    /\ InitCanary
    /\ InitProgress

\* blueberry-copilot: augmentSummary on every summary and text, applied twice
InitAugmented ==
    /\ OthersIdle
    /\ BlueberryIdle
    /\ InitMaternal({<<>>})
    /\ InitAugment(IntakeSummaries, Texts)
    /\ InitSummarize({TRUE}, {"POST"}, {[t |-> "string", empty |-> FALSE, words |-> {}]})

NextAugment == AugmentSummary

SpecAugment == InitAugmented /\ [][NextAugment]_vars

\* blueberry-copilot: one request to /api/summarize and the page's handling of the answer
InitIntake ==
    /\ OthersIdle
    /\ BlueberryIdle
    /\ InitMaternal({<<>>})
    /\ InitAugment({IntakeSummaryOf(<<>>, "low")}, {{}})
    /\ InitSummarize(BOOLEAN, Methods, RawTexts)

NextIntake ==
    \/ HandlerEntry
    \/ \E content \in Contents : FirstContent(content)
    \/ \E content \in Contents : RetryContent(content)
    \/ HandleResponse

SpecIntake == InitIntake /\ [][NextIntake]_vars

\* Maternal Risk Monitor: an upload, notes and one GET /patients/:id, interleaved,
\* up to the answer
InitDetail ==
    /\ OthersIdle
    /\ BlueberryIdle
    /\ InitAugment({IntakeSummaryOf(<<>>, "low")}, {{}})
    /\ InitSummarize({TRUE}, {"POST"}, {[t |-> "string", empty |-> FALSE, words |-> {}]})
    /\ InitMaternal(DetailFiles)

NextDetail ==
    \/ UpsertPatient
    \/ InsertRiskScore
    \/ \E id \in PatientIds, created_at \in 1..MaxNotes : AddNote(id, created_at)
    \/ \E id \in PatientIds : DetailPatient(id)
    \/ \E tie \in TieOrders : DetailScores(tie)
    \/ \E tie \in TieOrders : DetailNotes(tie)

SpecDetail == InitDetail /\ [][NextDetail]_vars

\* Maternal Risk Monitor: an upload and one GET /patients, interleaved, up to the answer
InitList ==
    /\ OthersIdle
    /\ BlueberryIdle
    /\ InitAugment({IntakeSummaryOf(<<>>, "low")}, {{}})
    /\ InitSummarize({TRUE}, {"POST"}, {[t |-> "string", empty |-> FALSE, words |-> {}]})
    /\ InitMaternal(ListFiles)

NextList ==
    \/ UpsertPatient
    \/ InsertRiskScore
    \/ \E tie \in TieOrders, scan \in TieOrders : ListRowsQuery(tie, scan)
    \/ \E tie \in TieOrders, sort \in Sorts, filter \in Filters :
          ListScoresQuery(tie, sort, filter)

SpecList == InitList /\ [][NextList]_vars

(***************************************************************************)
(* Operators over the recorded history, used by the properties             *)
(***************************************************************************)
HistMin(h) == CHOOSE m \in { h[i] : i \in 1..Len(h) } : \A i \in 1..Len(h) : m <= h[i]

EarliestMinEpoch(h) ==
    CHOOSE i \in 1..Len(h) : h[i] = HistMin(h) /\ \A j \in 1..(i - 1) : h[j] # HistMin(h)

\* the published checkpoint is a completely written file of one epoch's weights
CompleteFile(f) == Len(f) = NChunks /\ \A i \in 1..Len(f) : f[i] = f[1]

SavedEpoch == IF ckptPath = 0 THEN 0 ELSE files[ckptPath][1]

Stopped == runState \in {"EarlyStopped", "MaxEpochsReached", "Finalized", "Aborted"}

\* the run is past the end-of-epoch decision of epoch Len(maeHist)
PastDecision == Stopped \/ (runState = "Training" /\ epoch > Len(maeHist))

(***************************************************************************)
(* C1. Early stopping by count: a run stops as EarlyStopped at the end of  *)
(* the patience-th consecutive non-improving epoch after the best one, and *)
(* executes no further epoch. With patience = 3 and validation MAE         *)
(* 5.0, 5.1, 5.2, 5.3 the run stops after the 4th epoch, as EarlyStopped,  *)
(* and there is no 5th epoch.                                              *)
(***************************************************************************)
C1_EarlyStopByCount ==
    /\ maeHist # <<>> => Len(maeHist) - EarliestMinEpoch(maeHist) <= patience
    /\ (maeHist # <<>> /\ runState = "Training" /\ epoch > Len(maeHist))
          => Len(maeHist) - EarliestMinEpoch(maeHist) < patience
    /\ runState = "EarlyStopped"
          => /\ epoch = Len(maeHist)
             /\ epoch = EarliestMinEpoch(maeHist) + patience
    /\ (patience = 3 /\ Len(maeHist) >= 4 /\ SubSeq(maeHist, 1, 4) = EarlyStopExample)
          => /\ epoch = 4
             /\ Len(maeHist) = 4
             /\ runState # "MaxEpochsReached"
             /\ PastDecision => runState \in {"EarlyStopped", "Finalized"}

C1_Witness ==
    /\ patience = 3
    /\ maxEpochs > 4
    /\ maeHist = EarlyStopExample
    /\ runState = "EarlyStopped"

(***************************************************************************)
(* C2 as stated: after an epoch the run becomes EarlyStopped exactly when  *)
(* epochs-since-improvement exceeds the patience, continues otherwise, and *)
(* stops as MaxEpochsReached at the maximum epoch count.                   *)
(***************************************************************************)
C2_StopsWhenPatienceExceeded ==
    /\ runState = "EarlyStopped" => sinceImprove > patience
    /\ (runState = "Training" /\ epoch > Len(maeHist) /\ epoch > 1)
          => /\ sinceImprove <= patience
             /\ epoch <= maxEpochs
    /\ runState = "MaxEpochsReached"
          => /\ sinceImprove <= patience
             /\ epoch = maxEpochs

(***************************************************************************)
(* C2 amended: after an epoch the run becomes EarlyStopped exactly when    *)
(* epochs-since-improvement has reached the patience (is at least the      *)
(* patience); otherwise it stops as MaxEpochsReached when the epoch is the *)
(* maximum epoch count, and otherwise continues with the next epoch.       *)
(***************************************************************************)
C2_StopsWhenPatienceReached ==
    [][ (runState = "Training" /\ phase = "decide")
          => /\ (runState' = "EarlyStopped") <=> (sinceImprove >= patience)
             /\ (runState' = "MaxEpochsReached")
                   <=> (sinceImprove < patience /\ epoch = maxEpochs)
             /\ (runState' = "Training" /\ epoch' = epoch + 1 /\ phase' = "batches")
                   <=> (sinceImprove < patience /\ epoch < maxEpochs)
             /\ sinceImprove' = sinceImprove ]_vars

C2_Witness ==
    /\ runState = "EarlyStopped"
    /\ sinceImprove = patience
    /\ epoch < maxEpochs

(***************************************************************************)
(* C3. Monotonic checkpointing: whenever no checkpoint write is in         *)
(* progress, the saved checkpoint is the one of the earliest epoch that    *)
(* achieved the minimum validation MAE so far (while one is in progress it *)
(* is still that of the epochs before), and epochs-since-improvement       *)
(* counts the epochs since that epoch (0 only on a strict improvement, one *)
(* more on every other epoch). For 5.0, 4.2, 4.5, 3.9, 4.0, 4.1 the saved  *)
(* checkpoint is the one of the 4th epoch (MAE 3.9).                       *)
(***************************************************************************)
C3_MonotonicCheckpointing ==
    maeHist # <<>> =>
        /\ bestEpoch = EarliestMinEpoch(maeHist)
        /\ bestMAE = HistMin(maeHist)
        /\ sinceImprove = Len(maeHist) - EarliestMinEpoch(maeHist)
        /\ phase # "checkpoint"
              => /\ ckptPath # 0
                 /\ CompleteFile(files[ckptPath])
                 /\ SavedEpoch = EarliestMinEpoch(maeHist)
        /\ phase = "checkpoint"
              => /\ sinceImprove = 0
                 /\ bestEpoch = epoch
                 /\ epoch > 1 => SavedEpoch = EarliestMinEpoch(SubSeq(maeHist, 1, epoch - 1))
        /\ (maeHist = MonotonicExample /\ phase # "checkpoint")
              => SavedEpoch = 4 /\ maeHist[SavedEpoch] = 39

C3_Witness ==
    /\ maeHist = MonotonicExample
    /\ phase = "decide"
    /\ SavedEpoch = 4
    /\ sinceImprove = 2

(***************************************************************************)
(* C5. Run lifecycle: Initialized -> Training(epoch=1) -> ... -> Finalized;*)
(* the epoch number grows by exactly 1; Finalized is entered only from     *)
(* EarlyStopped or MaxEpochsReached; nothing leaves Finalized (or Aborted);*)
(* and every run reaches Finalized or aborts within maxEpochs epochs.      *)
(***************************************************************************)
RunTransition ==
    /\ runState' # runState =>
          \/ runState = "Initialized" /\ runState' = "Training" /\ epoch' = 1
          \/ runState = "Training"
                /\ runState' \in {"EarlyStopped", "MaxEpochsReached", "Aborted"}
          \/ runState \in {"EarlyStopped", "MaxEpochsReached"} /\ runState' = "Finalized"
    /\ epoch' # epoch => epoch' = epoch + 1 /\ runState' = "Training"
    /\ runState \in {"Finalized", "Aborted"}
          => UNCHANGED <<cfgVars, runVars, splitVars, ckptVars>>

C5_RunLifecycle ==
    /\ [][RunTransition]_vars
    /\ [](epoch <= maxEpochs /\ Len(maeHist) <= maxEpochs)
    /\ <>(runState \in {"Finalized", "Aborted"})

C5_Witness ==
    /\ runState = "Finalized"
    /\ epoch = maxEpochs
    /\ maxEpochs >= 3
    /\ sinceImprove < patience

(***************************************************************************)
(* C6. BatchShapeError aborts the run: a batch is never skipped (every     *)
(* batch taken from the epoch's patients is a gradient source), nothing    *)
(* runs after the abort, and the checkpoint visible after the abort is a   *)
(* complete one saved by an earlier, fully completed epoch, or none.       *)
(***************************************************************************)
C6_AbortOnBatchShapeError ==
    /\ [](runState = "Aborted"
            => /\ error = "BatchShapeError"
               /\ Len(maeHist) = epoch - 1
               /\ \/ ckptPath = 0 /\ epoch = 1
                  \/ /\ ckptPath # 0
                     /\ CompleteFile(files[ckptPath])
                     /\ SavedEpoch < epoch
                     /\ SavedEpoch = EarliestMinEpoch(maeHist))
    /\ [](error # "none" => runState = "Aborted")
    /\ [][ /\ pending' # pending /\ pending' \subseteq pending
              => /\ (pending \ pending') \subseteq gradSrc'
                 /\ weights' # weights
                 /\ weights'.epoch = epoch
           /\ runState = "Aborted" => UNCHANGED <<cfgVars, runVars, splitVars, ckptVars>> ]_vars

C6_Witness ==
    /\ runState = "Aborted"
    /\ error = "BatchShapeError"
    /\ epoch >= 2
    /\ weights.epoch = epoch
    /\ ckptPath # 0
    /\ SavedEpoch < epoch

(***************************************************************************)
(* C7. Train/validation disjointness: no patient id is both a gradient     *)
(* source and a validation patient, in any epoch and under any shuffle,    *)
(* and the split never changes during the run.                             *)
(***************************************************************************)
C7_SplitDisjoint ==
    /\ [](/\ gradSrc \cap valSeen = {}
          /\ gradSrc \cap valIds = {}
          /\ trainIds \cap valIds = {}
          /\ gradSrc \subseteq trainIds
          /\ valSeen \subseteq valIds
          /\ pending \subseteq trainIds)
    /\ [][ /\ trainIds' = trainIds
           /\ valIds' = valIds
           /\ epoch' # epoch => pending' = trainIds ]_vars

C7_Witness ==
    /\ epoch >= 2
    /\ phase = "validate"
    /\ gradSrc = trainIds
    /\ valSeen = valIds
    /\ Cardinality(valIds) >= 1
    /\ Cardinality(trainIds) > BatchSize

(***************************************************************************)
(* C4. Checkpoint atomicity: every load of an inference engine, under any  *)
(* interleaving with the training run, sees one completely written         *)
(* checkpoint (the previous one or the new one), never a partial or mixed  *)
(* file; and a checkpoint write starts only after the validation pass of   *)
(* its epoch has completed.                                                *)
(***************************************************************************)
CheckpointedEpochs ==
    { i \in 1..Len(maeHist) : \A j \in 1..(i - 1) : maeHist[j] > maeHist[i] }

C4_AtomicCheckpoint ==
    /\ \A r \in Readers :
        /\ rdState[r] # "corrupt"
        /\ \A i \in 1..Len(rdBuf[r]) : rdBuf[r][i] = rdBuf[r][1]
        /\ rdState[r] = "reading" => CompleteFile(files[rdInode[r]])
        /\ rdState[r] = "loaded"
              => /\ Len(rdBuf[r]) = NChunks
                 /\ rdBuf[r][1] \in CheckpointedEpochs
    /\ ckptPath # 0 => CompleteFile(files[ckptPath])
    /\ (phase = "checkpoint")
          => /\ Len(maeHist) = epoch
             /\ valSeen = valIds
             /\ weights.epoch = epoch
             /\ pending = {}
             /\ \A i \in 1..Len(files[WriteTarget(epoch)]) : files[WriteTarget(epoch)][i] = epoch
    /\ \A i \in Inodes : files[i] # <<>> => i \in CheckpointedEpochs

C4_Witness ==
    \E r \in Readers :
        /\ rdState[r] = "reading"
        /\ Len(rdBuf[r]) = 1
        /\ rdInode[r] # ckptPath
        /\ phase = "checkpoint"
        /\ ckptChunks = 1

(***************************************************************************)
(* C8. Join barrier of the Uncertainty Estimator: under any interleaving   *)
(* of the N parallel passes, the mean and standard deviation are computed  *)
(* only after all N passes have completed and over exactly their N         *)
(* outputs; a request with N < 2 fails with InsufficientSamples and runs   *)
(* no pass.                                                                *)
(***************************************************************************)
C8_JoinBarrier ==
    /\ mcState = "done"
          => /\ mcN >= 2
             /\ \A i \in 1..mcN : mcPass[i] = "done"
             /\ mcResult.n = mcN
             /\ mcResult.sum = SumOver(1..mcN, mcOut)
             /\ mcResult.sumSq = SumOver(1..mcN, [i \in Passes |-> mcOut[i] * mcOut[i]])
    /\ mcState # "done" => mcResult = NoResult
    /\ mcState = "running" => mcN >= 2
    /\ mcState = "failed"
          => /\ mcN < 2
             /\ mcError = "InsufficientSamples"
             /\ \A i \in Passes : mcPass[i] = "unused"
    /\ (mcState # "idle" /\ mcN < 2) => mcState = "failed"

C8_Witness ==
    /\ mcState = "done"
    /\ mcN = MaxSamples
    /\ mcResult.n = MaxSamples
    /\ Cardinality({ mcOut[i] : i \in 1..mcN }) > 1

C11_FactorOnDropOnly ==
    scState = "done" =>
        \A h \in scReq.horizons :
            /\ scAdjusted[h] = lastScore * 1000 - (lastScore - pointEstimate[h]) * scFactor
            /\ (lastScore > pointEstimate[h] /\ scFactor < 1000)
                  => /\ scAdjusted[h] > scBaseline[h]
                     /\ scAdjusted[h] <= lastScore * 1000
            /\ (lastScore > pointEstimate[h] /\ scReq.sleep = 2 /\ scReq.activity = 0)
                  => /\ scFactor < 1000
                     /\ scAdjusted[h] > scBaseline[h]

C11_Witness ==
    /\ scState = "done"
    /\ scReq.sleep = 2
    /\ scReq.activity = 0
    /\ 18 \in scReq.horizons
    /\ lastScore = 95
    /\ pointEstimate[18] = 70
    /\ scBaseline[18] = 70000
    /\ scAdjusted[18] = 72500

ValidCheckpoint(f) == Len(f) = NChunks /\ \A i \in 1..Len(f) : DimsMatch(f[i])

C13_CorruptRejectedAtLoad ==
    /\ [](\A r \in Readers :
            /\ engStep[r] # "none" => rdState[r] = "loaded"
            /\ rdState[r] = "loaded"
                  => /\ ValidCheckpoint(files[rdInode[r]])
                     /\ rdBuf[r] = files[rdInode[r]]
            /\ rdState[r] = "corrupt"
                  => /\ ~ValidCheckpoint(files[rdInode[r]])
                     /\ engStep[r] = "none")
    /\ [](\A i \in 1..Len(engRuns) : DimsMatch(engRuns[i].weights))
    /\ [][ /\ \A r \in Readers :
               /\ (engStep'[r] # engStep[r] \/ engReq'[r] # engReq[r])
                     => rdState[r] = "loaded" /\ rdState'[r] = "loaded"
               /\ rdState[r] = "corrupt" => rdState'[r] \in {"corrupt", "idle"}
           /\ engRuns' # engRuns
                 => \E r \in Readers : rdState[r] = "loaded" /\ engStep[r] = "encoded" ]_vars

C13_Witness ==
    /\ rdState[1] = "corrupt"
    /\ Len(rdBuf[1]) = 1
    /\ Len(files[rdInode[1]]) = NChunks
    /\ engRuns = <<>>
    /\ rdState[2] = "loaded"
    /\ engStep[2] = "encoded"

(***************************************************************************)
(* C14. Determinism of point inference: two runs of predict with the same  *)
(* checkpoint, in eval mode and on identical patient inputs give identical *)
(* outputs, on one engine or on two: every point prediction is the         *)
(* function of weights and input alone. Point inference always runs in     *)
(* eval mode, so the stochastic passes of the Uncertainty Estimator are    *)
(* the only step whose result may differ between two runs.                 *)
(***************************************************************************)
SameRun(a, b) == a.weights = b.weights /\ a.patient = b.patient

Stored(id) == \E i \in 1..Len(caStore) : caStore[i].id = id

Completed(id) ==
    \E i \in 1..Len(caStore) :
        /\ caStore[i].id = id
        /\ caStore[i].status = "completed"
        /\ caStore[i].completedAt # 0

\* a stored analysis without the two fields a completion sets
OtherFields(a) == [a EXCEPT !.status = "", !.completedAt = 0]

(***************************************************************************)
(* C15. Persistence under concurrency: under any interleaving of           *)
(* concurrent POST /api/v1/analyses requests and their delayed completion  *)
(* callbacks in one server process, no stored analysis is lost or          *)
(* overwritten: after k successful uploads the store holds exactly k       *)
(* records with pairwise distinct ids, and each completion callback        *)
(* changes only the status and completedAt of its own record.              *)
(***************************************************************************)
C15_NoAnalysisLost ==
    /\ [](/\ Len(caStore) = Cardinality({ q \in Uploads : caPc[q] = "202" })
          /\ \A i, j \in 1..Len(caStore) : i # j => caStore[i].id # caStore[j].id
          /\ \A q \in Uploads : caPc[q] = "202" => Stored(caResp[q]))
    /\ [][ /\ Len(caStore') >= Len(caStore)
           /\ \A i \in 1..Len(caStore) :
                 /\ OtherFields(caStore'[i]) = OtherFields(caStore[i])
                 /\ caStore'[i] # caStore[i]
                       => /\ caTimers # <<>>
                          /\ caStore[i].id = Head(caTimers)
                          /\ caTimers' = Tail(caTimers)
                          /\ Len(caStore') = Len(caStore)
                          /\ \A j \in 1..Len(caStore) : j # i => caStore'[j] = caStore[j] ]_vars

C15_Witness ==
    /\ \A q \in Uploads : caPc[q] = "202"
    /\ Len(caStore) = MaxUploads
    /\ caStore[1].status = "completed"
    /\ caStore[2].status = "processing"
    /\ caStore[1].createdAt < caStore[2].createdAt
    /\ caStore[2].createdAt < caStore[1].completedAt

(***************************************************************************)
(* C16. Analysis lifecycle: every analysis accepted by POST                *)
(* /api/v1/analyses is stored with status 'processing' before the 202      *)
(* response is sent, is eventually updated to 'completed' with completedAt *)
(* set, never returns from 'completed' to 'processing', and is never given *)
(* status 'failed'.                                                        *)
(***************************************************************************)
C16_AnalysisLifecycle ==
    /\ [](\A q \in Uploads :
            /\ caPc[q] = "202" <=> caResp[q] # 0
            /\ caPc[q] = "202" => Stored(caResp[q]))
    /\ [](\A i \in 1..Len(caStore) :
            /\ caStore[i].status \in {"processing", "completed"}
            /\ caStore[i].status = "completed" <=> caStore[i].completedAt # 0)
    /\ [][\A i \in 1..Len(caStore') :
             IF i > Len(caStore)
             THEN caStore'[i].status = "processing" /\ caStore'[i].completedAt = 0
             ELSE caStore[i].status = "completed" => caStore'[i] = caStore[i] ]_vars
    /\ \A id \in AnalysisIds : Stored(id) ~> Completed(id)

C16_Witness ==
    /\ Len(caStore) = 2
    /\ caStore[1].status = "processing"
    /\ caStore[2].status = "processing"
    /\ caTimers = <<caStore[1].id, caStore[2].id>>
    /\ \E q \in Uploads : caResp[q] = caStore[2].id /\ caPc[q] = "202"

(***************************************************************************)
(* C18 as stated: every value of the documented risk indicators is         *)
(* attainable from an upload: over the generator's possible scores the     *)
(* handler can store an analysis with burnoutRisk 'low', one with          *)
(* 'moderate' and one with 'high', and one whose recommendations include   *)
(* 'High stress detected - recommend wellness check-in'.                   *)
(***************************************************************************)
\* some upload can store an analysis that satisfies test
CanStore(test(_)) ==
    \E s \in StressScores, f \in FatigueIndexes, c \in CognitiveLoads,
       pick \in 0..(Len(sentiments) - 1), id \in AnalysisIds :
        test(NewAnalysis(id, caClock + 1, s, f, c, pick))

C18_EveryRiskAttainable ==
    /\ \A risk \in {"low", "moderate", "high"} :
          CanStore(LAMBDA a : a.burnoutRisk = risk)
    /\ CanStore(LAMBDA a :
          \E i \in 1..Len(a.recommendations) :
              a.recommendations[i] = "High stress detected - recommend wellness check-in")

\* what holds instead: no stored analysis is ever at high burnout risk
C18_HighNeverStored ==
    \A i \in 1..Len(caStore) :
        /\ caStore[i].burnoutRisk \in {"low", "moderate"}
        /\ caStore[i].stressScore <= 69
        /\ \A k \in 1..Len(caStore[i].recommendations) :
              caStore[i].recommendations[k]
                 # "High stress detected - recommend wellness check-in"

(***************************************************************************)
(* C17. Five-stage progress pipeline: for each startAnalysis event         *)
(* received on a socket, the server emits to that socket, and to no other, *)
(* exactly five analysisProgress events carrying the request's analysisId, *)
(* in the order preprocessing(20), extraction(40), analysis(60),           *)
(* processing(80), complete(100): the progress values of one analysis are  *)
(* strictly increasing and end at 100. (Every stage timer is either       *)
(* pending or has emitted its event, and a pending timer can always fire.) *)
(***************************************************************************)
FiveStages == <<"preprocessing", "extraction", "analysis", "processing", "complete">>

\* the events of request n among those emitted to socket k
EventsOf(n, k) == SelectSeq(skEmitted[k], LAMBDA e : e.req = n)

InStageOrder(n, evs) ==
    /\ Len(evs) <= 5
    /\ \A i \in 1..Len(evs) :
          /\ evs[i].analysisId = skStarted[n].analysisId
          /\ evs[i].stage = FiveStages[i]
          /\ evs[i].progress = 20 * i
          /\ i > 1 => evs[i].progress > evs[i - 1].progress

\* the stage timers of request n that have not fired yet
PendingOf(n) == { t \in skTimers : t.req = n }

C17_FiveStagePipeline ==
    /\ \A k \in Sockets :
          \A i \in 1..Len(skEmitted[k]) : skEmitted[k][i].req \in 1..Len(skStarted)
    /\ \A n \in 1..Len(skStarted) :
          /\ InStageOrder(n, EventsOf(n, skStarted[n].socket))
          /\ \A k \in Sockets \ {skStarted[n].socket} : EventsOf(n, k) = <<>>
          /\ Len(EventsOf(n, skStarted[n].socket)) + Cardinality(PendingOf(n)) = 5
          /\ PendingOf(n) = {}
                => EventsOf(n, skStarted[n].socket)[5].progress = 100
    /\ skTimers # {} => ENABLED (Tick \/ EmitProgress)

C17_Witness ==
    /\ Len(skStarted) = 2
    /\ skStarted[1] = skStarted[2]
    /\ Len(skEmitted[skStarted[1].socket]) = 10
    /\ skEmitted[skStarted[1].socket][2].req = 2
    /\ skEmitted[skStarted[1].socket][10].req = 2
    /\ skTimers = {}

(***************************************************************************)
(* C19. Intake history bound: after any sequence of saveIntake and         *)
(* updateIntakeNotes calls in the browser, the stored list holds at most 5 *)
(* records, ordered newest first, and it consists of exactly the (up to)   *)
(* 5 most recently saved records; saving a 6th record evicts the oldest.   *)
(***************************************************************************)
C19_IntakeHistoryBound ==
    /\ hasWindow
          => /\ Len(bbStored) <= 5
             /\ Len(bbStored) = Min(5, Len(bbSaved))
             /\ \A i \in 1..Len(bbStored) :
                   bbStored[i].id = bbSaved[Len(bbSaved) - i + 1]
             /\ Len(bbSaved) >= 6
                   => \A i \in 1..Len(bbStored) : bbStored[i].id # bbSaved[1]
    /\ ~hasWindow => getIntakes = <<>>

C19_Witness ==
    /\ hasWindow
    /\ Len(bbSaved) = 7
    /\ Len(bbStored) = 5
    /\ bbStored[1].id = 7
    /\ bbStored[5].id = 3
    /\ bbStored[2].notes # ""
    /\ bbStored[1].notes = ""

(***************************************************************************)
(* C20. Triage escalation floor: for every current triage and every list   *)
(* of rule flags, escalateTriage returns 'emergency' if any flag is one of *)
(* respiratory distress, cyanosis, seizures, airway compromise; otherwise, *)
(* if the list is non-empty, a level of at least 'high' (low and moderate  *)
(* become high, high and emergency are kept); with an empty list it        *)
(* returns the current triage unchanged.                                   *)
(***************************************************************************)
Level(t) ==
    CASE t = "low" -> 1
      [] t = "moderate" -> 2
      [] t = "high" -> 3
      [] t = "emergency" -> 4

AnyEmergency(flags) ==
    \E i \in 1..Len(flags) :
        flags[i] \in {"respiratory distress", "cyanosis", "seizures", "airway compromise"}

C20_EscalationFloor ==
    etResult # "none" =>
        /\ etResult \in Triages
        /\ AnyEmergency(etFlags) => etResult = "emergency"
        /\ (~AnyEmergency(etFlags) /\ Len(etFlags) > 0)
              => /\ Level(etResult) >= Level("high")
                 /\ Level(etResult) = Max(Level(etTriage), Level("high"))
        /\ Len(etFlags) = 0 => etResult = etTriage

C20_Witness ==
    /\ etTriage = "moderate"
    /\ etFlags = <<"poor intake/dehydration", "unresponsive/poor responsiveness">>
    /\ etResult = "high"

(***************************************************************************)
(* C22. augmentSummary only ever adds: the result's red_flags contains     *)
(* every flag of the input summary and every flag detected in the text,    *)
(* without duplicates; the result's triage is never lower than the input   *)
(* triage (low < moderate < high < emergency); all other fields are        *)
(* unchanged; and applying augmentSummary a second time with the same text *)
(* returns the same summary.                                               *)
(***************************************************************************)
FlagsIn(flags) == { flags[i] : i \in 1..Len(flags) }

\* the flags the keyword table attaches to the phrases of a text
TextFlags(text) ==
    { KEYWORD_FLAGS[i].flag : i \in { j \in 1..Len(KEYWORD_FLAGS) : KEYWORD_FLAGS[j].k \cap text # {} } }

OnlyAdds(in, text, out) ==
    /\ FlagsIn(in.red_flags.v) \subseteq FlagsIn(out.red_flags.v)
    /\ TextFlags(text) \subseteq FlagsIn(out.red_flags.v)
    /\ \A i, j \in 1..Len(out.red_flags.v) : i # j => out.red_flags.v[i] # out.red_flags.v[j]
    /\ Level(StrOf(out.triage)) >= Level(StrOf(in.triage))
    /\ \A f \in DOMAIN in \ {"red_flags", "triage"} : out[f] = in[f]
    /\ DOMAIN out = DOMAIN in

C22_AugmentOnlyAdds ==
    /\ Len(agOut) >= 1 => OnlyAdds(agIn, agText, agOut[1])
    /\ Len(agOut) = 2 => agOut[2] = agOut[1]

C22_Witness ==
    /\ Len(agOut) = 2
    /\ agIn.red_flags.v = <<"cyanosis", "cyanosis">>
    /\ agIn.triage = Str("moderate")
    /\ agText = {"very sleepy", "blue", "runny nose"}
    /\ agOut[1].red_flags.v = <<"cyanosis", "unresponsive/poor responsiveness">>
    /\ agOut[1].triage = Str("emergency")

(***************************************************************************)
(* C23. Summarize retry protocol: for one request the handler calls the    *)
(* model at most twice; the second call happens only when the first        *)
(* response is not parseable JSON; the handler answers 200 only with a     *)
(* body that passes validateIntakeSummary, answers 500 when the retry is   *)
(* also unparseable or when a parsed response fails the schema (a          *)
(* schema-invalid first response is not retried), and answers 405          *)
(* (non-POST), 400 (missing or non-string raw_text) or 500 (no API key)    *)
(* without calling the model.                                              *)
(***************************************************************************)
\* the schema of IntakeSummary, field by field
MatchesSchema(obj) ==
    /\ obj.t = "object"
    /\ \A f \in {"chief_concern", "duration", "hpi"} : obj.v[f].t = "string"
    /\ \A f \in {"key_symptoms", "red_flags", "follow_up_questions", "possible_causes"} :
          obj.v[f].t = "array"
    /\ obj.v.triage.t = "string"
    /\ StrOf(obj.v.triage) \in Triages

Answered == smPc \in {"answered", "handled"}

C23_RetryProtocol ==
    /\ smCalls <= 2
    /\ smCalls = 2 => smContents[1].kind = "text"
    /\ (Len(smContents) >= 1 /\ smContents[1].kind = "json") => smCalls = 1
    /\ smStatus = 200
          => /\ MatchesSchema(smBody.json)
             /\ smBody.json = smContents[Len(smContents)].value
    /\ Answered =>
          /\ smStatus \in {200, 400, 405, 500}
          /\ smReq.method # "POST" => smStatus = 405
          /\ (smReq.method = "POST" /\ smReq.raw_text.t # "string") => smStatus = 400
          /\ smStatus \in {400, 405} => smCalls = 0
          /\ (smReq.method = "POST" /\ smReq.raw_text.t = "string" /\ ~smReq.raw_text.empty
                /\ ~apiKey) => smStatus = 500 /\ smCalls = 0
          /\ smCalls >= 1 =>
                LET last == smContents[Len(smContents)] IN
                /\ Len(smContents) = smCalls
                /\ last.kind = "text" => smCalls = 2 /\ smStatus = 500
                /\ (last.kind = "json" /\ ~MatchesSchema(last.value)) => smStatus = 500
                /\ (last.kind = "json" /\ MatchesSchema(last.value)) => smStatus = 200

C23_Witness ==
    /\ smPc = "answered"
    /\ smCalls = 2
    /\ smContents[1].kind = "text"
    /\ smContents[2].kind = "json"
    /\ smContents[2].value.t = "object"
    /\ smContents[2].value.v.triage = Str("urgent")
    /\ smStatus = 500

(***************************************************************************)
(* C21. Red flags imply emergency: every intake summary produced by the    *)
(* summarize-then-augmentSummary pipeline, and so every record saved to    *)
(* history, that has a non-empty red_flags list has triage 'emergency'.    *)
(***************************************************************************)
RedFlagsAreEmergency(summary) ==
    Len(summary.red_flags.v) > 0 => summary.triage = Str("emergency")

C21_RedFlagsImplyEmergency ==
    /\ hsSummary.t = "object" => RedFlagsAreEmergency(hsSummary.v)
    /\ \A i \in 1..Len(bbStored) : RedFlagsAreEmergency(bbStored[i].summary)

\* the rule engine breaks the rule by itself: this fails too, for a model response that
\* follows the prompt's triage rules and a text with "very sleepy" or "not drinking"
C21_RuleEngineKeepsTheRule ==
    (hsSummary.t = "object" /\ RedFlagsAreEmergency(smBody.json.v))
        => RedFlagsAreEmergency(hsSummary.v)

(***************************************************************************)
(* C24. Maternal patient detail: GET /patients/:id answers 404 when no     *)
(* patients row has that patient_id; otherwise its history holds at most 5 *)
(* risk scores, which are that patient's most recent ones by timestamp,    *)
(* listed in ascending timestamp order, with notes listed newest first.    *)
(* The tables are the ones each query of the request reads.                *)
(***************************************************************************)
Ascending(rows, key(_)) ==
    \A i, j \in 1..Len(rows) : i < j => key(rows[i]) <= key(rows[j])

Descending(rows, key(_)) ==
    \A i, j \in 1..Len(rows) : i < j => key(rows[i]) >= key(rows[j])

EachOnce(rows, S) ==
    /\ RowsOf(rows) = S
    /\ Len(rows) = Cardinality(S)

Timestamp(r) == r.timestamp

CreatedAt(r) == r.created_at

\* scores are the most recent ones of S, five at most
MostRecent(scores, S) ==
    /\ Len(scores) = Min(5, Cardinality(S))
    /\ EachOnce(scores, RowsOf(scores))
    /\ RowsOf(scores) \subseteq S
    /\ \A h \in RowsOf(scores), r \in S \ RowsOf(scores) : r.timestamp <= h.timestamp

C25_ChartChronological ==
    mtDetail.status = 200 => Ascending(ChartData(mtDetail), Timestamp)

\* what the chart receives is the history backwards
C25_ChartNewestFirst ==
    mtDetail.status = 200 => Descending(ChartData(mtDetail), Timestamp)

(***************************************************************************)
(* C26. Rising flag: in the GET /patients result each patient with at      *)
(* least one risk score appears exactly once, and its flag is 'rising'     *)
(* exactly when the patient has at least two scores and the risk_score     *)
(* reported in that row (the patient's latest by timestamp) exceeds the    *)
(* immediately preceding score by more than 20; otherwise the flag is      *)
(* empty. With filter=high only rows with risk_score > 70 are returned,    *)
(* and with sort=risk_desc rows are in non-increasing risk_score order.    *)
(* The scores are the ones the answer's second query read; where equal     *)
(* timestamps leave 'latest' or 'preceding' open, any reading that agrees  *)
(* with the row is accepted.                                               *)
(***************************************************************************)
LatestOf(S) == { x \in S : \A y \in S : y.timestamp <= x.timestamp }

ScoresOfPatient(list, p) == { x \in RowsOf(list.allScores) : x.patient_id = p }

FlagAgrees(row, S) ==
    \E x \in LatestOf(S) :
        /\ x.risk_score = row.risk_score
        /\ x.timestamp = row.timestamp
        /\ IF Cardinality(S) < 2 THEN row.flag = ""
           ELSE \E y \in LatestOf(S \ {x}) :
                   row.flag = (IF x.risk_score - y.risk_score > 20 THEN "rising" ELSE "")

RisingClaim(list) ==
    /\ \A p \in PatientIds :
          LET at == { i \in 1..Len(list.body) : list.body[i].patient_id = p } IN
          /\ Cardinality(at) <= 1
          /\ at # {} => ScoresOfPatient(list, p) # {}
          /\ (list.filter = "" /\ \E x \in ScoresOfPatient(list, p) : x.id <= list.seenScores)
                => at # {}
    /\ \A i \in 1..Len(list.body) :
          FlagAgrees(list.body[i], ScoresOfPatient(list, list.body[i].patient_id))
    /\ list.filter = "high" => \A i \in 1..Len(list.body) : list.body[i].risk_score > 70
    /\ list.sort = "risk_desc"
          => \A i, j \in 1..Len(list.body) :
                i < j => list.body[i].risk_score >= list.body[j].risk_score

C26_RisingFlag ==
    mtList.pc = "done" => RisingClaim(mtList)

\* no score was inserted between the two queries of the request
Quiet(list) == list.seenScores = Len(list.allScores)

\* no two scores of a patient have the same timestamp
Untied(list) ==
    \A x, y \in RowsOf(list.allScores) :
        (x.patient_id = y.patient_id /\ x.timestamp = y.timestamp) => x = y

\* fails as well: equal timestamps alone break the claim, without any concurrent upload
C26_RisingFlagWhenQuiet ==
    (mtList.pc = "done" /\ Quiet(mtList)) => RisingClaim(mtList)

\* what does hold: the claim, for a request no upload interleaves with, over distinct timestamps
C26_RisingFlagWhenQuietAndUntied ==
    (mtList.pc = "done" /\ Quiet(mtList) /\ Untied(mtList)) => RisingClaim(mtList)

C26_QuietAndUntiedReached ==
    /\ mtList.pc = "done"
    /\ Quiet(mtList)
    /\ Untied(mtList)
    /\ Len(mtList.body) = 2
    /\ \E i \in 1..2 : mtList.body[i].flag = "rising"

====
